---- MODULE Spec2Model ----
(***************************************************************************)
(* Model of the anomaly-detection and analysis orchestration core of       *)
(* AI_analyzer: the statistical detector (ia/analyzer/anomaly.py), the     *)
(* batch optimizer (ia/analyzer/batch_optimizer.py), the multi-endpoint    *)
(* client (ia/analyzer/k2_client.py), the progress tracker                 *)
(* (ia/analyzer/progress_tracker.py) and analyze_run                       *)
(* (ia/orchestrator/pipeline.py) as driven by the server's                 *)
(* reanalyze_single_run (ia/webapp/server.py).                             *)
(*                                                                         *)
(* Conventions.                                                            *)
(*  - Python floats that carry measurements are integers here.             *)
(*  - A Python tuple key (suite, case, metric) is the 3-tuple <<s, c, m>>; *)
(*    a Python string key "suite::case::metric" is the 1-tuple <<str>>,    *)
(*    so the two kinds of key are different values, as in Python.          *)
(*  - A Python dict is a function; d.get(k, default) is DictGet.           *)
(*  - Python None for a numeric field is the integer None (-1); for a      *)
(*    rational it is the pair with denominator 0.                          *)
(***************************************************************************)
EXTENDS Integers, Sequences, FiniteSets, TLC

----------------------------------------------------------------------------
(* Generic helpers                                                          *)

None == -1

Abs(x) == IF x < 0 THEN -x ELSE x

Min(a, b) == IF a <= b THEN a ELSE b

Max(a, b) == IF a >= b THEN a ELSE b

Range(s) == {s[i] : i \in 1..Len(s)}

DictGet(d, k, default) == IF k \in DOMAIN d THEN d[k] ELSE default

EmptyDict == [k \in {} |-> <<>>]

(* `x is None' for a JSON value of any type. ToString gives every value a   *)
(* text, so that the test needs no comparison across types                 *)
IsNull(x) == ToString(x) = ToString(None)

(* `not x' for a JSON value of any type: null, 0, "", [], {} and false *)
Falsy(x) ==
  ToString(x) \in {ToString(None), ToString(0), ToString(""), ToString(<<>>),
                   ToString(EmptyDict), ToString(FALSE)}

RECURSIVE SetMax(_)
SetMax(S) ==
  IF S = {} THEN 0
  ELSE LET x == CHOOSE y \in S : TRUE
           r == SetMax(S \ {x})
       IN IF S = {x} THEN x ELSE Max(x, r)

RECURSIVE SeqSum(_)
SeqSum(s) == IF s = <<>> THEN 0 ELSE s[1] + SeqSum(Tail(s))

(* insertion of x into an ascending sequence, after the elements equal to it *)
RECURSIVE InsertSorted(_, _)
InsertSorted(x, s) ==
  IF s = <<>> THEN <<x>>
  ELSE IF x < s[1] THEN <<x>> \o s
  ELSE <<s[1]>> \o InsertSorted(x, Tail(s))

RECURSIVE sorted(_)
sorted(s) == IF s = <<>> THEN <<>> ELSE InsertSorted(s[Len(s)], sorted(SubSeq(s, 1, Len(s) - 1)))

----------------------------------------------------------------------------
(* Statistical detector: ia/analyzer/anomaly.py                             *)
(* statistics.median of an even-length list is the mean of the two middle  *)
(* values, so the model carries TWICE the median (Median2x) and FOUR times *)
(* the MAD (Mad4x) to stay in the integers.                                *)

Median2x(values) ==
  LET s == sorted(values)
      n == Len(s)
  IN IF n % 2 = 1 THEN 2 * s[(n + 1) \div 2]
     ELSE s[n \div 2] + s[n \div 2 + 1]

median_absolute_deviation(values) ==
  IF values = <<>> THEN 0
  ELSE LET med2 == Median2x(values)
           deviations == [i \in 1..Len(values) |-> Abs(2 * values[i] - med2)]
       IN Median2x(deviations)

(* sum(values) / len(values), as the pair <<sum, len>>; 0.0 for an empty list *)
mean(values) == IF values = <<>> THEN <<0, 1>> ELSE <<SeqSum(values), Len(values)>>

NoneRatio == [n |-> 0, d |-> 0]

IsNone(r) == r.d = 0

(* the z-score with a MAD of 0 replaced by the smallest positive MAD *)
RobustZMadFloor(current, history) ==
  IF history = <<>> THEN NoneRatio
  ELSE LET med2 == Median2x(history)
           mad4 == Max(1, median_absolute_deviation(history))
       IN [n |-> 2 * (2 * current - med2) * 10000, d |-> 14826 * mad4]

(* (current - med) / (1.4826 * mad) = 2*(2*current - med2)*10000 / (14826 * mad4) *)
robust_z_score(current, history) ==
  IF history = <<>> THEN NoneRatio
  ELSE LET med2 == Median2x(history)
           mad4 == median_absolute_deviation(history)
       IN IF mad4 = 0 THEN NoneRatio
          ELSE [n |-> 2 * (2 * current - med2) * 10000, d |-> 14826 * mad4]

(* the change taken relative to the current value: (current - med) / current *)
PctChangeVsCurrent(current, history) ==
  IF history = <<>> THEN NoneRatio
  ELSE LET med2 == Median2x(history)
       IN IF current = 0 THEN NoneRatio
          ELSE [n |-> 2 * current - med2, d |-> 2 * Abs(current)]

(* (current - med) / med = (2*current - med2) / med2 *)
pct_change_vs_median(current, history) ==
  IF history = <<>> THEN NoneRatio
  ELSE LET med2 == Median2x(history)
       IN IF med2 = 0 THEN NoneRatio
          ELSE IF med2 > 0 THEN [n |-> 2 * current - med2, d |-> med2]
          ELSE [n |-> -(2 * current - med2), d |-> -med2]

(* (current - mu) / mu with mu = sum / len: (current * len - sum) / sum *)
pct_change_vs_mean(current, history) ==
  IF history = <<>> THEN NoneRatio
  ELSE LET mu == mean(history)
       IN IF mu[1] = 0 THEN NoneRatio
          ELSE IF mu[1] > 0 THEN [n |-> current * mu[2] - mu[1], d |-> mu[1]]
          ELSE [n |-> -(current * mu[2] - mu[1]), d |-> -mu[1]]

(* abs(r) >= num/den for a rational r that is not None *)
AbsGe(r, num, den) == Abs(r.n) * den >= num * r.d

(* the ladder with OR in place of AND at every tier *)
SeverityTierEither(rz, pct) ==
  IF IsNone(rz) \/ IsNone(pct) THEN "none"
  ELSE IF AbsGe(rz, 8, 1) \/ AbsGe(pct, 50, 100) THEN "high"
  ELSE IF AbsGe(rz, 6, 1) \/ AbsGe(pct, 35, 100) THEN "medium"
  ELSE IF AbsGe(rz, 4, 1) \/ AbsGe(pct, 25, 100) THEN "low"
  ELSE "none"

(* the tier ladder shared by heuristic_anomalies and _evaluate_severity *)
SeverityTier(rz, pct) ==
  IF IsNone(rz) \/ IsNone(pct) THEN "none"
  ELSE IF AbsGe(rz, 8, 1) /\ AbsGe(pct, 50, 100) THEN "high"
  ELSE IF AbsGe(rz, 6, 1) /\ AbsGe(pct, 35, 100) THEN "medium"
  ELSE IF AbsGe(rz, 4, 1) /\ AbsGe(pct, 25, 100) THEN "low"
  ELSE "none"

(* confidence in units of 1/10000: min(0.95, base + 0.05 * (abs(rz or 0) / 10)) *)
HeuristicConfidence(rz, hist) ==
  LET confidence_base == IF Len(hist) >= 100 THEN 7000 ELSE 6000
      bonus == IF IsNone(rz) THEN 0 ELSE (50 * Abs(rz.n)) \div rz.d
  IN Min(9500, confidence_base + bonus)

TupleKey(e) == <<e.suite, e.case, e.metric>>

StrKey(e) == <<e.suite \o "::" \o e.case \o "::" \o e.metric>>

HeuristicRecord(e, hist) ==
  LET rz == robust_z_score(e.value, hist)
      pct == pct_change_vs_median(e.value, hist)
  IN [suite |-> e.suite, case |-> e.case, metric |-> e.metric,
      current_value |-> e.value,
      severity |-> SeverityTier(rz, pct),
      confidence |-> HeuristicConfidence(rz, hist),
      primary_reason |-> "robust_z, delta vs median",
      root_causes |-> <<>>,
      supporting_evidence |-> [history_n |-> Len(hist)]]

RECURSIVE heuristic_anomalies(_, _, _)
heuristic_anomalies(entries, history, min_samples_for_anomaly) ==
  IF entries = <<>> THEN <<>>
  ELSE LET e == entries[1]
           hist == DictGet(history, TupleKey(e), <<>>)
           rest == heuristic_anomalies(Tail(entries), history, min_samples_for_anomaly)
       IN IF Len(hist) < min_samples_for_anomaly THEN rest
          ELSE IF HeuristicRecord(e, hist).severity = "none" THEN rest
          ELSE <<HeuristicRecord(e, hist)>> \o rest

EntryFeature(e, history) ==
  LET hist == DictGet(history, TupleKey(e), <<>>)
  IN [current_value |-> e.value,
      history_n |-> Len(hist),
      mean |-> IF hist = <<>> THEN NoneRatio
               ELSE [n |-> mean(hist)[1], d |-> mean(hist)[2]],
      median |-> IF hist = <<>> THEN NoneRatio ELSE [n |-> Median2x(hist), d |-> 2],
      robust_z |-> robust_z_score(e.value, hist),
      pct_change_vs_median |-> pct_change_vs_median(e.value, hist),
      pct_change_vs_mean |-> pct_change_vs_mean(e.value, hist)]

(* keyed by the string "suite::case::metric"; a later entry of the same key wins *)
compute_entry_features(entries, history) ==
  [k \in {StrKey(entries[i]) : i \in 1..Len(entries)} |->
     LET last == SetMax({i \in 1..Len(entries) : StrKey(entries[i]) = k})
     IN EntryFeature(entries[last], history)]

----------------------------------------------------------------------------
(* Baseline builder: load_history_for_keys, ia/analyzer/anomaly.py          *)
(* files: the archive's ub.jsonl files in scan order (newest first), each  *)
(* a sequence of rows whose value is numeric (NumV) or not (BadV).         *)

NumV(x) == [num |-> TRUE, v |-> x]

BadV == [num |-> FALSE, v |-> 0]

RowKey(row) == <<row.suite, row.case, row.metric>>

(* rows of one file that float() accepts for key k *)
NumericRowsFor(rows, k) == SelectSeq(rows, LAMBDA row : RowKey(row) = k /\ row.value.num)

RECURSIVE total_counts(_, _)
total_counts(files, k) ==
  IF files = <<>> THEN 0
  ELSE Len(NumericRowsFor(files[1], k)) + total_counts(Tail(files), k)

(* the cap taken from avg_available, the figure the source only prints *)
EffectiveMaxRunsAverage(files, key_set, max_runs, min_samples) ==
  IF max_runs # None THEN max_runs
  ELSE LET counted == {k \in key_set : total_counts(files, k) > 0}
           counts == [k \in counted |-> total_counts(files, k)]
           RECURSIVE Sum(_)
           Sum(S) == IF S = {} THEN 0
                     ELSE LET x == CHOOSE y \in S : TRUE IN counts[x] + Sum(S \ {x})
       IN IF counted # {}
          THEN Max(min_samples, Sum(counted) \div Cardinality(counted))
          ELSE 30

(* the cap: max_runs when given, else max(min_samples, max_available), else 30 *)
EffectiveMaxRuns(files, key_set, max_runs, min_samples) ==
  IF max_runs # None THEN max_runs
  ELSE LET counted == {k \in key_set : total_counts(files, k) > 0}
       IN IF counted # {}
          THEN Max(min_samples, SetMax({total_counts(files, k) : k \in counted}))
          ELSE 30

(* lines 117-127: `history' is a defaultdict(list): history[k] of a key it   *)
(* does not hold adds the key with an empty list. A row adds its key when  *)
(* it is requested and float() accepts the value (arr = history[k])        *)
RECURSIVE ScanRows(_, _, _, _)
ScanRows(rows, hist, key_set, cap) ==
  IF rows = <<>> THEN hist
  ELSE LET row == rows[1]
           k == RowKey(row)
           arr == DictGet(hist, k, <<>>)
           next == IF k \in key_set /\ row.value.num
                   THEN [x \in DOMAIN hist \cup {k} |->
                           IF x # k THEN hist[x]
                           ELSE IF Len(arr) < cap THEN Append(arr, row.value.v)
                           ELSE arr]
                   ELSE hist
       IN ScanRows(Tail(rows), next, key_set, cap)

(* the orders in which `for k in key_set' can visit a set of keys: the      *)
(* iteration order of a set of tuples of strings follows their hashes,     *)
(* which change with the hash seed of the process                          *)
SetOrders(key_set) ==
  {order \in [1..Cardinality(key_set) -> key_set] : Range(order) = key_set}

(* lines 115-130: after each file, all(len(history[k]) >= max_runs for k in *)
(* key_set) reads history[k] key by key in the set's order and stops at    *)
(* the first key below the cap: the keys it has read are in the defaultdict *)
RECURSIVE ScanFiles(_, _, _, _)
ScanFiles(files, hist, set_order, cap) ==
  IF files = <<>> THEN hist
  ELSE LET after == ScanRows(files[1], hist, Range(set_order), cap)
           below == {i \in 1..Len(set_order) :
                       Len(DictGet(after, set_order[i], <<>>)) < cap}
           first == CHOOSE i \in below : \A j \in below : i <= j
           read == IF below = {} THEN Range(set_order)
                   ELSE {set_order[i] : i \in 1..first}
           checked == [x \in DOMAIN after \cup read |-> DictGet(after, x, <<>>)]
       IN IF below = {} THEN checked
          ELSE ScanFiles(Tail(files), checked, set_order, cap)

(* tuple-keyed history: the keys of which a numeric row was read and the    *)
(* keys the early-exit test has read, in the set order of this process     *)
load_history_for_keys(files, keys, max_runs, min_samples, set_order) ==
  LET key_set == Range(keys)
      cap == EffectiveMaxRuns(files, key_set, max_runs, min_samples)
  IN ScanFiles(files, EmptyDict, set_order, cap)

----------------------------------------------------------------------------
(* Batch optimizer: ia/analyzer/batch_optimizer.py                          *)

LowerChar(c) ==
  CASE c = "A" -> "a" [] c = "B" -> "b" [] c = "C" -> "c" [] c = "D" -> "d"
    [] c = "E" -> "e" [] c = "F" -> "f" [] c = "G" -> "g" [] c = "H" -> "h"
    [] c = "I" -> "i" [] c = "J" -> "j" [] c = "K" -> "k" [] c = "L" -> "l"
    [] c = "M" -> "m" [] c = "N" -> "n" [] c = "O" -> "o" [] c = "P" -> "p"
    [] c = "Q" -> "q" [] c = "R" -> "r" [] c = "S" -> "s" [] c = "T" -> "t"
    [] c = "U" -> "u" [] c = "V" -> "v" [] c = "W" -> "w" [] c = "X" -> "x"
    [] c = "Y" -> "y" [] c = "Z" -> "z" [] OTHER -> c

RECURSIVE lower(_)
lower(str) ==
  IF Len(str) = 0 THEN ""
  ELSE LowerChar(SubSeq(str, 1, 1)) \o lower(SubSeq(str, 2, Len(str)))

(* Python's `sub in str` *)
Contains(str, sub) ==
  \E i \in 1..(Len(str) - Len(sub) + 1) : SubSeq(str, i, i + Len(sub) - 1) = sub

(* the keyword ladder; the non-ASCII keywords of the source never match the *)
(* ASCII metric names of this model and are left out                       *)
_get_metric_type(metric) ==
  LET metric_lower == lower(metric)
  IN IF Contains(metric_lower, "dhrystone") THEN "integer"
     ELSE IF Contains(metric_lower, "whetstone") THEN "float"
     ELSE IF Contains(metric_lower, "copy") \/ Contains(metric_lower, "io") THEN "io"
     ELSE IF Contains(metric_lower, "process") THEN "process"
     ELSE IF Contains(metric_lower, "syscall") THEN "syscall"
     ELSE IF Contains(metric_lower, "pipe") THEN "pipe"
     ELSE IF Contains(metric_lower, "shell") THEN "shell"
     ELSE IF Contains(metric_lower, "index") \/ Contains(metric_lower, "score") THEN "index"
     ELSE "other"

(* features.get(key, {}) followed by feature.get(field) *)
NoFeature == [current_value |-> None, history_n |-> None, mean |-> NoneRatio,
              median |-> NoneRatio, robust_z |-> NoneRatio,
              pct_change_vs_median |-> NoneRatio, pct_change_vs_mean |-> NoneRatio]

_evaluate_severity(entry, feature, history) ==
  LET hist == DictGet(history, TupleKey(entry), <<>>)
      tier == SeverityTier(feature.robust_z, feature.pct_change_vs_median)
  IN IF Len(hist) < 20 THEN "normal"
     ELSE IF tier = "none" THEN "normal"
     ELSE tier

(* the content json.dumps(..., sort_keys=True) serialises: one object per   *)
(* entry, in the order of the list, its keys in sorted order               *)
BatchContent(entries) ==
  [i \in 1..Len(entries) |->
     <<entries[i].case, entries[i].metric, entries[i].suite, entries[i].value>>]

(* hashlib.md5(content).hexdigest()[:12], taken to be collision-free on the *)
(* contents of the model: the digest is a tag of the serialised content    *)
Md5Hex12(content) == [md5 |-> content]

_generate_batch_id(entries) == Md5Hex12(BatchContent(entries))

(* int(100 - min(abs(robust_z), 100)) *)
PrioritySeverity(rz) ==
  IF Abs(rz.n) >= 100 * rz.d THEN 0 ELSE (100 * rz.d - Abs(rz.n)) \div rz.d

RECURSIVE _calculate_priority(_, _)
_calculate_priority(entries, features) ==
  IF entries = <<>> THEN 100
  ELSE LET rz == DictGet(features, StrKey(entries[1]), NoFeature).robust_z
           rest == _calculate_priority(Tail(entries), features)
       IN IF IsNone(rz) THEN rest ELSE Min(rest, PrioritySeverity(rz))

_create_batch(entries, features) ==
  LET keys == {StrKey(entries[i]) : i \in 1..Len(entries)} \cap DOMAIN features
      batch_features == [k \in keys |-> features[k]]
  IN [batch_id |-> _generate_batch_id(entries),
      entries |-> entries,
      features |-> batch_features,
      priority |-> _calculate_priority(entries, batch_features),
      size |-> Len(entries)]

(* an insertion-ordered dict of lists (defaultdict(list)) as a sequence of  *)
(* [key, items]: append item under key                                     *)
RECURSIVE GroupAppend(_, _, _)
GroupAppend(groups, key, item) ==
  IF groups = <<>> THEN <<[key |-> key, items |-> <<item>>]>>
  ELSE IF groups[1].key = key
       THEN <<[groups[1] EXCEPT !.items = Append(@, item)]>> \o Tail(groups)
  ELSE <<groups[1]>> \o GroupAppend(Tail(groups), key, item)

(* entries[i] is filed under keys[i] *)
RECURSIVE GroupByKeys(_, _, _)
GroupByKeys(entries, keys, groups) ==
  IF entries = <<>> THEN groups
  ELSE GroupByKeys(Tail(entries), Tail(keys), GroupAppend(groups, keys[1], entries[1]))

_group_entries(entries, features, history) ==
  LET group_key(entry) ==
        entry.suite \o "_" \o
        _evaluate_severity(entry, DictGet(features, StrKey(entry), NoFeature), history)
  IN GroupByKeys(entries, [i \in 1..Len(entries) |-> group_key(entries[i])], <<>>)

(* the undersized chunk dropped instead of merged *)
AbsorbChunkDropped(batch, chunk) == batch

(* batches[-1].entries.extend(batch_entries); batches[-1].size = len(...):  *)
(* batch_id, features and priority of the absorbing batch stay as created  *)
AbsorbChunk(batch, chunk) ==
  [batch EXCEPT !.entries = batch.entries \o chunk,
                !.size = Len(batch.entries \o chunk)]

(* for i in range(0, len(metric_entries), self.max_batch_size) *)
RECURSIVE SplitChunks(_, _, _, _, _)
SplitChunks(self, metric_entries, i, features, batches) ==
  IF i >= Len(metric_entries) THEN batches
  ELSE LET batch_entries ==
             SubSeq(metric_entries, i + 1, Min(i + self.max_batch_size, Len(metric_entries)))
           next ==
             IF Len(batch_entries) >= self.min_batch_size \/ i = 0
             THEN Append(batches, _create_batch(batch_entries, features))
             ELSE IF batches # <<>>
                  THEN [batches EXCEPT ![Len(batches)] = AbsorbChunk(@, batch_entries)]
                  ELSE batches
       IN SplitChunks(self, metric_entries, i + self.max_batch_size, features, next)

RECURSIVE SplitMetricGroups(_, _, _, _)
SplitMetricGroups(self, metric_groups, features, batches) ==
  IF metric_groups = <<>> THEN batches
  ELSE SplitMetricGroups(self, Tail(metric_groups), features,
                         SplitChunks(self, metric_groups[1].items, 0, features, batches))

_split_large_group(self, entries, features) ==
  LET metric_groups ==
        GroupByKeys(entries, [i \in 1..Len(entries) |-> _get_metric_type(entries[i].metric)], <<>>)
  IN SplitMetricGroups(self, metric_groups, features, <<>>)

(* list.sort(key=lambda x: x.priority): stable, ascending *)
RECURSIVE InsertByPriority(_, _)
InsertByPriority(b, s) ==
  IF s = <<>> THEN <<b>>
  ELSE IF b.priority < s[1].priority THEN <<b>> \o s
  ELSE <<s[1]>> \o InsertByPriority(b, Tail(s))

RECURSIVE SortByPriority(_)
SortByPriority(s) ==
  IF s = <<>> THEN <<>>
  ELSE InsertByPriority(s[Len(s)], SortByPriority(SubSeq(s, 1, Len(s) - 1)))

RECURSIVE BatchesOfGroups(_, _, _)
BatchesOfGroups(self, groups, features) ==
  IF groups = <<>> THEN <<>>
  ELSE LET group_entries == groups[1].items
       IN (IF Len(group_entries) > self.max_batch_size
           THEN _split_large_group(self, group_entries, features)
           ELSE <<_create_batch(group_entries, features)>>)
          \o BatchesOfGroups(self, Tail(groups), features)

optimize_batches(self, entries, history) ==
  LET features == compute_entry_features(entries, history)
      groups == _group_entries(entries, features, history)
  IN SortByPriority(BatchesOfGroups(self, groups, features))

(* severity_counts of a list of anomalies: anomaly.get("severity", "low") *)
SeverityCounts(anomalies) ==
  [sev \in {"high", "medium", "low"} |->
     Cardinality({i \in 1..Len(anomalies) : DictGet(anomalies[i], "severity", "low") = sev})]

(* f"{anomaly.get('suite')}::{anomaly.get('case')}::{anomaly.get('metric')}" *)
AnomalyKey(anomaly) ==
  DictGet(anomaly, "suite", "None") \o "::" \o DictGet(anomaly, "case", "None")
    \o "::" \o DictGet(anomaly, "metric", "None")

(* A confidence as a result carries it: a number in units of 1/10000, null  *)
(* (None), or one of the strings "medium", "low", "high", written -2, -3,  *)
(* -4 so that the order of the integers is the order of the strings.       *)
(* unique_anomalies: insertion-ordered; a later record replaces the kept   *)
(* one in place only when its confidence is strictly greater. The          *)
(* comparison anomaly.get("confidence", 0) > kept.get("confidence", 0)     *)
(* orders numbers with numbers and strings with strings; with null on      *)
(* either side, or a number against a string, it raises TypeError and the  *)
(* merge ends there                                                        *)
RECURSIVE Dedup(_, _)
Dedup(all_anomalies, unique) ==
  IF all_anomalies = <<>> THEN [unique |-> unique, raised |-> ""]
  ELSE LET anomaly == all_anomalies[1]
           key == AnomalyKey(anomaly)
           at == {i \in 1..Len(unique) : AnomalyKey(unique[i]) = key}
           IsStr(c) == c < None
           Ordered(c, d) == c # None /\ d # None /\ (IsStr(c) <=> IsStr(d))
           Replaced(i) ==
             IF DictGet(anomaly, "confidence", 0) > DictGet(unique[i], "confidence", 0)
             THEN [unique EXCEPT ![i] = anomaly]
             ELSE unique
           Met(i) ==
             IF Ordered(DictGet(anomaly, "confidence", 0), DictGet(unique[i], "confidence", 0))
             THEN Dedup(Tail(all_anomalies), Replaced(i))
             ELSE [unique |-> unique, raised |-> "TypeError"]
       IN IF at = {} THEN Dedup(Tail(all_anomalies), Append(unique, anomaly))
          ELSE Met(CHOOSE j \in at : TRUE)

RECURSIVE AllAnomalies(_)
AllAnomalies(batch_results) ==
  IF batch_results = <<>> THEN <<>>
  ELSE DictGet(batch_results[1], "anomalies", <<>>) \o AllAnomalies(Tail(batch_results))

(* batch_optimizer.py 249-283; a merge that raises has no result: the       *)
(* record [raised |-> "TypeError"] stands for the exception                *)
merge_batch_results(batch_results) ==
  LET Merged(deduped) ==
        IF deduped.raised # "" THEN [raised |-> deduped.raised]
        ELSE [anomalies |-> deduped.unique,
              summary |-> [total_anomalies |-> Len(deduped.unique),
                           severity_counts |-> SeverityCounts(deduped.unique)]]
  IN Merged(Dedup(AllAnomalies(batch_results), <<>>))

(* heuristic_anomalies(entries, history) with its default of 10 samples *)
fallback_to_heuristic(entries, history) ==
  LET anomalies == heuristic_anomalies(entries, history, 10)
  IN [anomalies |-> anomalies,
      summary |-> [total_anomalies |-> Len(anomalies),
                   severity_counts |-> SeverityCounts(anomalies)]]

----------------------------------------------------------------------------
(* Progress tracker: ia/analyzer/progress_tracker.py                        *)
(* _progress is a function from job ids to ProgressInfo records.           *)

ProgressInfo(job_id, total_batches) ==
  [job_id |-> job_id, status |-> "pending", current_batch |-> 0,
   total_batches |-> total_batches, current_model |-> "",
   end_time_set |-> FALSE, error_message |-> ""]

(* the fields of ProgressInfo.to_dict that are stored state; start_time is  *)
(* written as datetime.fromtimestamp(start_time).isoformat(), a string,    *)
(* here the record [isoformat |-> start_time]. The job model follows no    *)
(* clock: its infos carry no start_time                                    *)
to_dict(info) ==
  LET stored == [job_id |-> info.job_id, status |-> info.status,
                 current_batch |-> info.current_batch,
                 total_batches |-> info.total_batches,
                 current_model |-> info.current_model,
                 error_message |-> info.error_message]
  IN IF "start_time" \in DOMAIN info
     THEN [f \in DOMAIN stored \cup {"start_time"} |->
             IF f = "start_time" THEN [isoformat |-> info.start_time]
             ELSE stored[f]]
     ELSE stored

_persist(progress) == [j \in DOMAIN progress |-> to_dict(progress[j])]

create_job(progress, job_id, total_batches) ==
  [j \in DOMAIN progress \cup {job_id} |->
     IF j = job_id THEN ProgressInfo(job_id, total_batches) ELSE progress[j]]

(* kw: the keyword arguments given, as a record; an argument left out is None *)
UpdatedInfo(info, kw) ==
  [info EXCEPT
     !.current_batch = IF "current_batch" \in DOMAIN kw THEN kw.current_batch ELSE @,
     !.total_batches = IF "total_batches" \in DOMAIN kw THEN kw.total_batches ELSE @,
     !.status = IF "status" \in DOMAIN kw THEN kw.status ELSE @,
     !.end_time_set = IF "status" \in DOMAIN kw /\ kw.status \in {"completed", "failed"}
                      THEN TRUE ELSE @,
     !.current_model = IF "current_model" \in DOMAIN kw THEN kw.current_model ELSE @,
     !.error_message = IF "error_message" \in DOMAIN kw THEN kw.error_message ELSE @]

update_progress(progress, job_id, kw) ==
  IF job_id \notin DOMAIN progress THEN progress
  ELSE [progress EXCEPT ![job_id] = UpdatedInfo(@, kw)]

----------------------------------------------------------------------------
(* Endpoints: ModelEndpoint and K2Client._load_models_config / _select_model *)
(* idle: the time since last_used, in quarter seconds, capped at 3 (so     *)
(* `now - m.last_used > 0.5` is idle > 2); a fresh endpoint (last_used = 0) *)
(* has idle 3.                                                             *)

ModelEndpoint(model_cfg) ==
  [name |-> model_cfg.name, model |-> model_cfg.model,
   enabled |-> model_cfg.enabled, priority |-> model_cfg.priority,
   idle |-> 3, error_count |-> 0, success_count |-> 0]

(* self.models.sort(key=lambda x: x.priority): stable, ascending *)
RECURSIVE InsertEndpointByPriority(_, _)
InsertEndpointByPriority(m, s) ==
  IF s = <<>> THEN <<m>>
  ELSE IF m.priority < s[1].priority THEN <<m>> \o s
  ELSE <<s[1]>> \o InsertEndpointByPriority(m, Tail(s))

RECURSIVE SortEndpointsByPriority(_)
SortEndpointsByPriority(s) ==
  IF s = <<>> THEN <<>>
  ELSE InsertEndpointByPriority(s[Len(s)], SortEndpointsByPriority(SubSeq(s, 1, Len(s) - 1)))

(* config_data["models"] when present, else the default endpoint of the    *)
(* environment configuration (cfg.api_key and cfg.model set)               *)
_load_models_config(models_cfg, cfg_has_key) ==
  LET loaded == SelectSeq([i \in 1..Len(models_cfg) |-> ModelEndpoint(models_cfg[i])],
                          LAMBDA endpoint : endpoint.enabled)
      default == [name |-> "default", model |-> "model-env",
                  enabled |-> TRUE, priority |-> 1]
  IN IF loaded = <<>> /\ cfg_has_key THEN <<ModelEndpoint(default)>>
     ELSE SortEndpointsByPriority(loaded)

(* the sort key (priority, -success_count, error_count), compared as tuples *)
SelectKeyLess(a, b) ==
  \/ a.priority < b.priority
  \/ a.priority = b.priority /\ a.success_count > b.success_count
  \/ a.priority = b.priority /\ a.success_count = b.success_count
       /\ a.error_count < b.error_count

(* stable sort of endpoint indices by the sort key of their endpoints *)
RECURSIVE InsertIndexByKey(_, _, _)
InsertIndexByKey(ms, i, s) ==
  IF s = <<>> THEN <<i>>
  ELSE IF SelectKeyLess(ms[i], ms[s[1]]) THEN <<i>> \o s
  ELSE <<s[1]>> \o InsertIndexByKey(ms, i, Tail(s))

RECURSIVE SortIndicesByKey(_, _)
SortIndicesByKey(ms, s) ==
  IF s = <<>> THEN <<>>
  ELSE InsertIndexByKey(ms, s[Len(s)], SortIndicesByKey(ms, SubSeq(s, 1, Len(s) - 1)))

(* available = [m for m in self.models if m.enabled and m.error_count < 5], *)
(* as indices into self.models                                             *)
AvailableEnabledOnly(ms) ==
  SelectSeq([i \in 1..Len(ms) |-> i], LAMBDA i : ms[i].enabled)

Available(ms) ==
  SelectSeq([i \in 1..Len(ms) |-> i], LAMBDA i : ms[i].enabled /\ ms[i].error_count < 5)

(* _select_model without the reset of the error counts *)
ModelsAfterSelectNoReset(ms) == ms

(* the endpoints after _select_model: error counts reset when none qualifies *)
ModelsAfterSelect(ms) ==
  IF Available(ms) # <<>> THEN ms
  ELSE [i \in 1..Len(ms) |-> [ms[i] EXCEPT !.error_count = 0]]

(* the index of the endpoint _select_model returns, 0 for None *)
_select_model(ms) ==
  LET after == ModelsAfterSelect(ms)
      available == IF Available(ms) # <<>> THEN Available(ms)
                   ELSE SelectSeq([i \in 1..Len(ms) |-> i], LAMBDA i : after[i].enabled)
      ranked == SortIndicesByKey(after, available)
      rested == SelectSeq(ranked, LAMBDA i : after[i].idle > 2)
  IN IF available = <<>> THEN 0
     ELSE IF rested # <<>> THEN rested[1]
     ELSE ranked[1]

(* time passing: every endpoint's idle time grows by ticks, capped *)
Elapse(ms, ticks) == [i \in 1..Len(ms) |-> [ms[i] EXCEPT !.idle = Min(3, @ + ticks)]]

----------------------------------------------------------------------------
(* K2Client._analyze_with_model (response handling) and pipeline helpers    *)

WithField(r, k, v) == [x \in DOMAIN r \cup {k} |-> IF x = k THEN v ELSE r[x]]

(* f"{anomaly.get('suite', '')}::{anomaly.get('case', '')}::{anomaly.get('metric', '')}"; *)
(* a field that is null in the reply is formatted as "None"                *)
PostProcessKey(anomaly) ==
  LET str(x) == IF IsNull(x) THEN "None" ELSE x
  IN <<str(DictGet(anomaly, "suite", "")) \o "::" \o str(DictGet(anomaly, "case", ""))
         \o "::" \o str(DictGet(anomaly, "metric", ""))>>

(* lines 432-449. supporting_evidence, when it is absent or falsy (null,    *)
(* {}), becomes {}; each of the six fields that is not a key of it gets    *)
(* feature_data.get(field), None when the entry has no feature; the keys   *)
(* the reply gave, null values included, stay. root_causes and             *)
(* suggested_next_checks, when absent or falsy, become []. A truthy        *)
(* supporting_evidence is an object.                                       *)
PostProcessAnomaly(anomaly, features) ==
  LET feature_data == DictGet(features, PostProcessKey(anomaly), NoFeature)
      Or(x, y) == IF Falsy(x) THEN y ELSE x
      fields == {"history_n", "mean", "median", "robust_z", "pct_change_vs_median",
                 "pct_change_vs_mean"}
      Filled(evidence) ==
        [field \in DOMAIN evidence \cup fields |->
           IF field \in DOMAIN evidence THEN evidence[field] ELSE feature_data[field]]
      a1 == WithField(anomaly, "supporting_evidence",
                      Filled(Or(DictGet(anomaly, "supporting_evidence", None), EmptyDict)))
      a2 == WithField(a1, "root_causes", Or(DictGet(anomaly, "root_causes", None), <<>>))
  IN WithField(a2, "suggested_next_checks",
               Or(DictGet(anomaly, "suggested_next_checks", None), <<>>))

(* the result for a reply whose content parsed as a JSON object *)
ParsedResult(reply, entries, history) ==
  LET features == compute_entry_features(entries, history)
  IN IF "anomalies" \in DOMAIN reply
     THEN WithField(reply, "anomalies",
                    [i \in 1..Len(reply.anomalies) |->
                       PostProcessAnomaly(reply.anomalies[i], features)])
     ELSE reply

(* the annotated result without the raw text *)
UnparsableResultNoRaw(content) ==
  [summary |-> [total_anomalies |-> 0], anomalies |-> <<>>, _error |-> "error"]

(* the result for a reply whose content did not parse: lines 451-453; the   *)
(* text of str(e) is not modelled                                          *)
UnparsableResult(content) ==
  [summary |-> [total_anomalies |-> 0], anomalies |-> <<>>,
   _raw |-> content, _error |-> "error"]

(* coerce_json_from_text, k2_client.py 97-113: strip, drop a code fence and *)
(* its "json" tag, cut before the first "{" and after the last "}", then   *)
(* json.loads, which is the lookup of the text in `loads', the JSON texts  *)
(* an endpoint of this model sends with the values they denote.            *)
(* text.strip() removes the characters for which str.isspace() holds:      *)
(* `whitespace' lists the space, the newline, the tab, the carriage        *)
(* return, the form feed and, written as the characters themselves, the    *)
(* vertical tab (0B), the separators 1C, 1D, 1E and 1F, the next line      *)
(* (85), the no-break space (A0) and the ogham space mark (1680). The      *)
(* other characters of str.isspace(), 2000-200A, 2028, 2029, 202F, 205F    *)
(* and 3000, are not characters of a string of this language. json.loads   *)
(* skips the space, the newline, the tab and the carriage return only: any *)
(* other character left around the document makes it raise.                *)
coerce_json_from_text(text, loads) ==
  LET backquote == SubSeq("`'", 1, 1)
      whitespace == {" ", "\n", "\t", "\r", "\f",
                     "", "", "", "", "", "", " ", " "}
      json_whitespace == {" ", "\n", "\t", "\r"}
      First(indices) == CHOOSE i \in indices : \A j \in indices : i <= j
      Last(indices) == CHOOSE i \in indices : \A j \in indices : i >= j
      Find(str, ch) == {i \in 1..Len(str) : SubSeq(str, i, i) = ch}
      Between(str, keep) ==
        IF keep = {} THEN "" ELSE SubSeq(str, First(keep), Last(keep))
      (* str.strip(chars) *)
      strip(str, chars) ==
        Between(str, {i \in 1..Len(str) : SubSeq(str, i, i) \notin chars})
      (* lines 101-102: if t.lower().startswith("json"): t = t[4:] *)
      untagged(t) ==
        IF Len(t) >= 4 /\ lower(SubSeq(t, 1, 4)) = "json" THEN SubSeq(t, 5, Len(t))
        ELSE t
      (* lines 98-99: if t.startswith(three backquotes): t = t.strip("` ") *)
      unfenced(t) ==
        IF Len(t) >= 3 /\ SubSeq(t, 1, 3) = backquote \o backquote \o backquote
        THEN untagged(strip(t, {backquote, " "}))
        ELSE t
      (* lines 104-106: first_brace = t.find("{"), cut when it is > 0 *)
      from_brace(t, opening) ==
        IF opening # {} /\ First(opening) - 1 > 0
        THEN SubSeq(t, First(opening), Len(t))
        ELSE t
      (* lines 108-110: last_brace = t.rfind("}"), cut when it is not -1 *)
      to_brace(t, closing) ==
        IF closing # {} THEN SubSeq(t, 1, Last(closing)) ELSE t
      from_first(t) == from_brace(t, Find(t, "{"))
      to_last(t) == to_brace(t, Find(t, "}"))
      (* json.loads, which skips the white space around the document *)
      json_loads(document) ==
        IF document \in DOMAIN loads
        THEN [raises |-> FALSE, value |-> loads[document]]
        ELSE [raises |-> TRUE, value |-> <<>>]
  IN json_loads(strip(to_last(from_first(unfenced(strip(text, whitespace)))),
                      json_whitespace))

(* result["summary"]["analysis_model"] = ...; result["summary"]["model_name"] = ... *)
TagResult(result, analysis_model, model_name) ==
  LET summary == DictGet(result, "summary", EmptyDict)
  IN WithField(result, "summary",
               WithField(WithField(summary, "analysis_model", analysis_model),
                         "model_name", model_name))

(* pipeline.py 73-89: a number above 1 is taken as a percentage; the       *)
(* strings "high", "medium", "low" (-4, -2, -3) are 0.9, 0.7, 0.5; null is *)
(* None                                                                    *)
_normalize_confidence(conf) ==
  IF IsNull(conf) THEN None
  ELSE IF conf = -4 THEN 9000
  ELSE IF conf = -2 THEN 7000
  ELSE IF conf = -3 THEN 5000
  ELSE IF conf > 10000 THEN conf \div 100
  ELSE conf

(* pipeline.py 94-118, one item of the loop. a.get(k) is None for a key     *)
(* that is absent and for one that is null; `x or y' takes y when x is     *)
(* falsy: None, "", 0, [], {} or false. A null string field of the record  *)
(* is written "None".                                                      *)
NormalizedAnomaly(a) ==
  LET get(k) == DictGet(a, k, None)
      Or(x, y) == IF Falsy(x) THEN y ELSE x
      str(x) == IF IsNull(x) THEN "None" ELSE x
      (* isinstance(dv, dict) and "current_value" in dv *)
      Holds(dv, k) == IF SubSeq(ToString(dv), 1, 1) = "[" THEN k \in DOMAIN dv ELSE FALSE
      (* lines 95-97 *)
      Given(first, second) == IF IsNull(first) /\ ~IsNull(second) THEN second ELSE first
      (* lines 99-102 *)
      Recovered(given, dv) ==
        IF IsNull(given) /\ Holds(dv, "current_value") THEN dv.current_value ELSE given
  IN [suite |-> str(get("suite")),
      case |-> str(get("case")),
      metric |-> str(get("metric")),
      current_value |-> Recovered(Given(get("current_value"), get("value")),
                                  Or(get("deltas"), EmptyDict)),
      unit |-> str(get("unit")),
      severity |-> str(get("severity")),
      confidence |-> _normalize_confidence(get("confidence")),
      (* lines 103-104 *)
      primary_reason |-> Or(get("primary_reason"),
                            Or(get("justification"), Or(get("description"), ""))),
      deltas |-> Or(get("deltas"), EmptyDict),
      (* line 116 *)
      root_causes |-> Or(get("root_causes"),
                         IF Falsy(get("root_cause")) THEN <<>>
                         ELSE <<[cause |-> get("root_cause"), likelihood |-> None]>>),
      supporting_evidence |-> Or(get("supporting_evidence"), EmptyDict),
      suggested_next_checks |-> Or(get("suggested_next_checks"), <<>>)]

_normalize_k2_anomalies(items) == [i \in 1..Len(items) |-> NormalizedAnomaly(items[i])]

(* Counter over severities, as written to summary.json *)
summarize(anomalies) ==
  [total_anomalies |-> Len(anomalies),
   severity_counts |->
     [sev \in {"high", "medium", "low"} |->
        Cardinality({i \in 1..Len(anomalies) : anomalies[i].severity = sev})]]

(* K2ProviderAdapter.name / version: the first enabled endpoint of self.models *)
ProviderName(ms) ==
  LET enabled_models == SelectSeq(ms, LAMBDA m : m.enabled)
  IN IF enabled_models # <<>> THEN enabled_models[1].model ELSE "ai-model"

ProviderVersion(ms) ==
  LET enabled_models == SelectSeq(ms, LAMBDA m : m.enabled)
  IN IF enabled_models # <<>> THEN enabled_models[1].name ELSE "unknown"

(* analyze_run lines 300-331: summary.json for a fresh analysis *)
RunSummary(anomalies, enabled, ai_failed, ms) ==
  LET summ == summarize(anomalies)
      actual_degraded == (~enabled) \/ ai_failed
      actual_model == DictGet(summ, "analysis_model", "")
      model_name == DictGet(summ, "model_name", "")
      engine ==
        IF actual_model # "" /\ actual_model # "heuristic"
        THEN [name |-> actual_model,
              version |-> IF model_name # "" THEN model_name ELSE actual_model,
              degraded |-> actual_degraded]
        ELSE IF actual_degraded
        THEN [name |-> "heuristic", version |-> "n/a", degraded |-> actual_degraded]
        ELSE [name |-> IF enabled THEN ProviderName(ms) ELSE "heuristic",
              version |-> IF enabled THEN ProviderVersion(ms) ELSE "n/a",
              degraded |-> actual_degraded]
  IN WithField(summ, "analysis_engine", engine)

----------------------------------------------------------------------------
(* The inputs of the job model: environment configuration, archive, runs    *)

EndpointCfg(name, model, enabled, priority) ==
  [name |-> name, model |-> model, enabled |-> enabled, priority |-> priority]

(* models_config.json "models" lists, with whether the environment also     *)
(* configures an API key and model (the default endpoint)                  *)
EnvConfigs ==
  { [models_cfg |-> <<EndpointCfg("m1", "model-a", TRUE, 1)>>, cfg_has_key |-> FALSE],
    [models_cfg |-> <<EndpointCfg("m1", "model-a", TRUE, 1),
                      EndpointCfg("m2", "model-b", TRUE, 2)>>, cfg_has_key |-> FALSE],
    [models_cfg |-> <<EndpointCfg("m1", "model-a", TRUE, 1),
                      EndpointCfg("m2", "model-b", TRUE, 1)>>, cfg_has_key |-> FALSE],
    [models_cfg |-> <<EndpointCfg("m1", "model-a", FALSE, 1),
                      EndpointCfg("m2", "model-b", TRUE, 2)>>, cfg_has_key |-> FALSE],
    [models_cfg |-> <<EndpointCfg("m1", "model-a", FALSE, 1)>>, cfg_has_key |-> TRUE],
    [models_cfg |-> <<>>, cfg_has_key |-> FALSE] }

(* "batch_optimization" of models_config.json; 10 and 3 are the defaults *)
BatchConfigs ==
  { [max_batch_size |-> 10, min_batch_size |-> 3],
    [max_batch_size |-> 2, min_batch_size |-> 1],
    [max_batch_size |-> 2, min_batch_size |-> 2] }

Entry(suite, case, metric, value) ==
  [suite |-> suite, case |-> case, metric |-> metric, value |-> value]

(* ub.jsonl of the run under analysis *)
Runs ==
  { <<Entry("UB", "c1", "Dhrystone 2", 160)>>,
    <<Entry("UB", "c1", "Dhrystone 2", 160), Entry("Net", "c1", "File Copy", 100)>>,
    <<Entry("UB", "c1", "Dhrystone 2", 160), Entry("UB", "c2", "Dhrystone 2", 100),
      Entry("UB", "c3", "Dhrystone 2", 100)>> }

BaselineValues == <<100, 101, 99, 100, 102, 98, 101, 100, 99, 100>>

Row(suite, case, metric, value) ==
  [suite |-> suite, case |-> case, metric |-> metric, value |-> value]

(* the earlier runs of the archive, newest first; (UB, c1) and (UB, c2) have  *)
(* ten samples, (Net, c1) three, (UB, c3) one that is not numeric          *)
ArchiveFiles ==
  [i \in 1..Len(BaselineValues) |->
     <<Row("UB", "c1", "Dhrystone 2", NumV(BaselineValues[i])),
       Row("UB", "c2", "Dhrystone 2", NumV(BaselineValues[i]))>>
     \o (IF i <= 3 THEN <<Row("Net", "c1", "File Copy", NumV(100))>> ELSE <<>>)
     \o (IF i = 1 THEN <<Row("UB", "c3", "Dhrystone 2", BadV)>> ELSE <<>>)]

(* the run under analysis lies in the archive too: its ub.jsonl is the      *)
(* newest file of the scan                                                 *)
RunFile(ents) ==
  [i \in 1..Len(ents) |->
     Row(ents[i].suite, ents[i].case, ents[i].metric, NumV(ents[i].value))]

(* what the model endpoint may answer for a request: the parsed content    *)
ModelReplies(ents) ==
  LET e == ents[1]
      found == [suite |-> e.suite, case |-> e.case, metric |-> e.metric,
                current_value |-> e.value, severity |-> "high", confidence |-> 8500,
                primary_reason |-> "model reason", root_causes |-> <<"cause">>]
  IN { [summary |-> [total_anomalies |-> 0], anomalies |-> <<>>],
       [summary |-> [total_anomalies |-> 1], anomalies |-> <<found>>],
       [summary |-> [total_anomalies |-> 2],
        anomalies |-> <<[found EXCEPT !.confidence = None], found>>] }

(* json.loads on the texts an endpoint sends: the JSON text of every reply  *)
(* of ModelReplies, and "[]", a JSON document that is not an object        *)
JsonTable(ents) ==
  LET RECURSIVE Dec(_)
      Dec(n) == IF n < 10 THEN SubSeq("0123456789", n + 1, n + 1)
                ELSE Dec(n \div 10) \o SubSeq("0123456789", (n % 10) + 1, (n % 10) + 1)
      Str(str) == "\"" \o str \o "\""
      RECURSIVE Join(_)
      Join(texts) ==
        IF texts = <<>> THEN ""
        ELSE texts[1] \o (IF Len(texts) > 1 THEN ", " ELSE "") \o Join(Tail(texts))
      AnomalyText(a) ==
        "{\"suite\": " \o Str(a.suite) \o ", \"case\": " \o Str(a.case)
          \o ", \"metric\": " \o Str(a.metric)
          \o ", \"current_value\": " \o Dec(a.current_value)
          \o ", \"severity\": " \o Str(a.severity)
          \o ", \"confidence\": "
          \o (IF a.confidence = None THEN "null" ELSE "0." \o Dec(a.confidence \div 100))
          \o ", \"primary_reason\": " \o Str(a.primary_reason)
          \o ", \"root_causes\": [" \o Join([j \in 1..Len(a.root_causes) |-> Str(a.root_causes[j])]) \o "]}"
      ReplyText(reply) ==
        "{\"summary\": {\"total_anomalies\": " \o Dec(reply.summary.total_anomalies)
          \o "}, \"anomalies\": [" \o Join([j \in 1..Len(reply.anomalies) |-> AnomalyText(reply.anomalies[j])]) \o "]}"
      replies == ModelReplies(ents)
  IN [text \in {ReplyText(reply) : reply \in replies} \cup {"[]"} |->
        IF text = "[]" THEN <<>>
        ELSE CHOOSE reply \in replies : ReplyText(reply) = text]

(* js["choices"][0]["message"]["content"]: a JSON text bare, in a code      *)
(* fence or between sentences; the JSON list, bare and after a form feed;  *)
(* a text without JSON; a JSON text cut short                              *)
ReplyContents(ents) ==
  LET texts == DOMAIN JsonTable(ents) \ {"[]"}
      fence == SubSeq("```'''", 1, 3)
      shortest == CHOOSE t \in texts : \A u \in texts : Len(t) <= Len(u)
  IN texts
       \cup {fence \o "json\n" \o t \o "\n" \o fence : t \in texts}
       \cup {"Here is the analysis:\n" \o t \o "\nDone." : t \in texts}
       \cup {"[]", "\f[]", "I cannot analyse this run.",
             SubSeq(shortest, 1, Len(shortest) - 1)}

(* coerce_json_from_text on every content an endpoint may send about an     *)
(* entry of a run, computed once                                           *)
CoercedContents ==
  UNION { { [entry |-> e, content |-> content,
             parsed |-> coerce_json_from_text(content, JsonTable(<<e>>))] :
            content \in ReplyContents(<<e>>) } :
          e \in UNION {Range(run) : run \in Runs} }

(* k2_client.py 426-453: the try block of _analyze_with_model on the reply  *)
(* content; a JSON list comes back as it is                                *)
ResponseResult(content, entries, history) ==
  LET parsed == (CHOOSE r \in CoercedContents :
                   r.entry = entries[1] /\ r.content = content).parsed
  IN IF parsed.raises THEN UnparsableResult(content)
     ELSE IF DOMAIN parsed.value = {} THEN parsed.value
     ELSE ParsedResult(parsed.value, entries, history)

JobId == "job1"

(* the most run directories without an anomalies file that the worker of  *)
(* action_reanalyze_all_missing finds in the archive                       *)
MaxRuns == 4

(* for attempt in range(3) *)
MaxAttempts == 3

----------------------------------------------------------------------------
(* State                                                                    *)

VARIABLES
  models,             \* K2Client.models: the loaded endpoints with their counters
  k2_enabled,         \* K2Client.enabled() at construction
  worker,             \* the worker: the job_id it gives analyze_run, its loop over runs
  config,             \* K2Client.config["batch_optimization"]
  entries,            \* the run's entries (ub.jsonl)
  use_k2,             \* reanalyze_single_run: whether analyze_run gets the client
  pc,                 \* position of the job: request, worker, analyze_run, client
  progress,           \* ProgressTracker._progress
  persist_file,       \* ./cache/progress.json as last written by _persist
  history,            \* analyze_run: load_history_for_keys result (tuple keys)
  groups,             \* analyze_run: entries grouped by suite, in order
  gi,                 \* analyze_run: index of the group being analysed
  anomalies,          \* analyze_run: the anomalies list
  ai_analysis_failed, \* analyze_run: the flag of the except branch
  result,             \* the result the last analysis call returned
  call,               \* _analyze_with_fallback: its arguments and locals
  batch,              \* _analyze_batch_optimized: its locals
  slept,              \* the time.sleep(2 ** attempt) calls of the current call
  anomalies_file,     \* anomalies.k2.jsonl of the run
  summary_json,       \* summary.json of the run
  opt,                \* BatchOptimizer exercised alone (SpecBatch)
  mrg,                \* merge_batch_results exercised alone (SpecMerge)
  det,                \* the detector and the baseline builder exercised alone (SpecDetect)
  net,                \* _analyze_with_model exercised alone (SpecModelCall)
  trk,                \* a ProgressTracker used by several threads (SpecTracker)
  srv,                \* the server's job registry and its threads (SpecServer)
  log                 \* K2Client.logger: the lines of _analyze_with_fallback

vars == <<models, k2_enabled, worker, config, entries, use_k2, pc, progress, persist_file,
          history, groups, gi, anomalies, ai_analysis_failed, result, call, batch,
          slept, anomalies_file, summary_json, opt, mrg, det, net, trk, srv, log>>

(* a file of the run directory: whether it exists, what a reader gets from  *)
(* it (the rows of a .jsonl file, the document of a .json file, <<>> for   *)
(* none) and whether a cut piece of text follows (a line or a document     *)
(* that a failed write left unfinished, which json.loads rejects)          *)
NoFile == [exists |-> FALSE, data |-> <<>>, cut |-> FALSE]

File(data) == [exists |-> TRUE, data |-> data, cut |-> FALSE]

NoCall ==
  [entries |-> <<>>, history |-> EmptyDict, ret |-> "", attempt |-> 0, model |-> 0,
   last_error |-> ""]

NoBatch == [batches |-> <<>>, current_batch_num |-> 0, batch_results |-> <<>>]

OptIdle == [phase |-> "off"]

MrgIdle == [phase |-> "off"]

DetIdle == [phase |-> "off"]

NetIdle == [phase |-> "off"]

(* no thread of the tracker model or of the registry model runs *)
ThreadsIdle == [phase |-> "off"]

Init ==
  /\ \E env \in EnvConfigs :
       /\ models = _load_models_config(env.models_cfg, env.cfg_has_key)
       /\ k2_enabled = (Len(_load_models_config(env.models_cfg, env.cfg_has_key)) > 0)
  /\ worker = [job_id |-> JobId, idx |-> 1, total |-> 1]
  /\ config \in BatchConfigs
  /\ entries \in Runs
  /\ use_k2 = FALSE
  /\ pc = "request"
  /\ progress = EmptyDict
  /\ persist_file = EmptyDict
  /\ history = EmptyDict
  /\ groups = <<>>
  /\ gi = 0
  /\ anomalies = <<>>
  /\ ai_analysis_failed = FALSE
  /\ result = EmptyDict
  /\ call = NoCall
  /\ batch = NoBatch
  /\ slept = <<>>
  /\ anomalies_file = NoFile
  /\ summary_json = NoFile
  /\ opt = OptIdle
  /\ mrg = MrgIdle
  /\ det = DetIdle
  /\ net = NetIdle
  /\ trk = ThreadsIdle
  /\ srv = ThreadsIdle
  /\ log = <<>>

----------------------------------------------------------------------------
(* The job: reanalyze_single_run -> _work_with_progress -> analyze_run ->   *)
(* K2Client.analyze -> _analyze_with_fallback -> _analyze_with_model       *)

(* a tracker operation of the server (its own job id) or of the client     *)
(* (k2_client.py 275, 297, 319, 343, 469, 482, 519: "if job_id:", the       *)
(* argument analyze_run passed on, pipeline.py 265-272): the new job map,  *)
(* persisted; nothing without a job id                                     *)
Track(id, kind, arg) ==
  IF Falsy(id) THEN UNCHANGED <<progress, persist_file>>
  ELSE LET new_progress == IF kind = "create_job" THEN create_job(progress, id, arg)
                           ELSE update_progress(progress, id, arg)
       IN /\ progress' = new_progress
          /\ persist_file' = _persist(new_progress)

(* server.py 1723-1744 and 1797-1808: engine selection, create_job, submit *)
reanalyze_single_run ==
  /\ pc = "request"
  /\ \E engine \in {"auto", "k2", "heuristic"} :
       /\ engine = "k2" => k2_enabled
       /\ use_k2' = IF engine = "heuristic" THEN FALSE ELSE k2_enabled
  /\ Track(JobId, "create_job", 1)
  /\ pc' = "submitted"
  /\ UNCHANGED <<models, k2_enabled, worker, config, entries, history, groups, gi, anomalies,
                 ai_analysis_failed, result, call, batch, slept, anomalies_file,
                 summary_json, opt, mrg, det, net, trk, srv, log>>

(* server.py 1746-1760: the worker starts; a missing run directory ends it *)
_work_with_progress ==
  /\ pc = "submitted"
  /\ \E run_exists \in BOOLEAN :
       IF run_exists
       THEN /\ Track(JobId, "update_progress", [status |-> "running"])
            /\ pc' = "analyze_run"
       ELSE /\ UNCHANGED <<progress, persist_file>>
            /\ pc' = "returned"
  /\ UNCHANGED <<models, k2_enabled, worker, config, entries, use_k2, history, groups, gi,
                 anomalies, ai_analysis_failed, result, call, batch, slept,
                 anomalies_file, summary_json, opt, mrg, det, net, trk, srv, log>>

GroupsBySuite(ents) ==
  GroupByKeys(ents, [i \in 1..Len(ents) |->
                       IF ents[i].suite # "" THEN ents[i].suite ELSE "__default__"], <<>>)

(* pipeline.py 123-148 and 244-251 / 294-296, with reuse_existing = False; *)
(* the archive that load_history_for_keys scans (anomaly.py 81-82) holds   *)
(* the ub.jsonl of every run the worker goes through, then the earlier runs *)
analyze_run_begin ==
  /\ pc = "analyze_run"
  /\ \E set_order \in SetOrders({TupleKey(entries[i]) : i \in 1..Len(entries)}) :
     LET keys == [i \in 1..Len(entries) |-> TupleKey(entries[i])]
         hist == load_history_for_keys([i \in 1..worker.total |-> RunFile(entries)]
                                         \o ArchiveFiles, keys, None, 10, set_order)
     IN /\ history' = hist
        /\ IF use_k2 /\ k2_enabled
           THEN /\ groups' = GroupsBySuite(entries)
                /\ gi' = 1
                /\ anomalies' = <<>>
                /\ pc' = "group"
           ELSE /\ anomalies' = heuristic_anomalies(entries, hist, 10)
                /\ UNCHANGED <<groups, gi>>
                /\ pc' = "write"
  /\ ai_analysis_failed' = FALSE
  /\ UNCHANGED <<models, k2_enabled, worker, config, entries, use_k2, progress, persist_file,
                 result, call, batch, slept, anomalies_file, summary_json, opt, mrg, det, net, trk, srv, log>>

(* hist_map["::".join(k)] = history.get(k, []) for the entries of the group *)
HistMap(ents, hist) ==
  [k \in {StrKey(ents[i]) : i \in 1..Len(ents)} |->
     LET i == CHOOSE j \in 1..Len(ents) : StrKey(ents[j]) = k
     IN DictGet(hist, TupleKey(ents[i]), <<>>)]

(* analyze_run_group leaving the loop after the first group *)
analyze_run_group_first_only ==
  /\ pc = "group"
  /\ IF gi > 1
     THEN /\ pc' = "write"
          /\ UNCHANGED <<models, progress, persist_file, call, slept>>
     ELSE /\ models' = Elapse(models, 8)
          /\ call' = [entries |-> groups[gi].items,
                      history |-> HistMap(groups[gi].items, history),
                      ret |-> "analyze", attempt |-> 0, model |-> 0,
                      last_error |-> ""]
          /\ slept' = <<>>
          /\ Track(worker.job_id, "create_job", 1)
          /\ pc' = "analyze"
  /\ UNCHANGED <<k2_enabled, worker, config, entries, use_k2, history, groups, gi, anomalies,
                 ai_analysis_failed, result, batch, anomalies_file,
                 summary_json, opt, mrg, det, net, trk, srv, log>>

(* pipeline.py 252-273: the next group, time.sleep(2.0), provider.analyze;   *)
(* k2_client.py 275-277: analyze creates the job                           *)
analyze_run_group ==
  /\ pc = "group"
  /\ IF gi > Len(groups)
     THEN /\ pc' = "write"
          /\ UNCHANGED <<models, progress, persist_file, call, slept>>
     ELSE /\ models' = Elapse(models, 8)
          /\ call' = [entries |-> groups[gi].items,
                      history |-> HistMap(groups[gi].items, history),
                      ret |-> "analyze", attempt |-> 0, model |-> 0,
                      last_error |-> ""]
          /\ slept' = <<>>
          /\ Track(worker.job_id, "create_job", 1)
          /\ pc' = "analyze"
  /\ UNCHANGED <<k2_enabled, worker, config, entries, use_k2, history, groups, gi, anomalies,
                 ai_analysis_failed, result, batch, anomalies_file,
                 summary_json, opt, mrg, det, net, trk, srv, log>>

(* k2_client.py 278-294: status running, then the batch path or the standard one *)
analyze ==
  /\ pc = "analyze"
  /\ Track(worker.job_id, "update_progress", [status |-> "running"])
  /\ pc' = IF Len(call.entries) > config.max_batch_size
           THEN "_analyze_batch_optimized" ELSE "select"
  /\ UNCHANGED <<models, k2_enabled, worker, config, entries, use_k2, history, groups, gi,
                 anomalies, ai_analysis_failed, result, call, batch, slept, anomalies_file,
                 summary_json, opt, mrg, det, net, trk, srv, log>>

(* k2_client.py 463-475: build the batches, report total_batches *)
_analyze_batch_optimized ==
  /\ pc = "_analyze_batch_optimized"
  /\ LET batches == optimize_batches(config, call.entries, call.history)
     IN /\ batch' = [batches |-> batches, current_batch_num |-> 0, batch_results |-> <<>>,
                     entries |-> call.entries, history |-> call.history]
        /\ Track(worker.job_id, "update_progress",
                 [total_batches |-> Len(batches), current_batch |-> 0])
  /\ pc' = "batch_loop"
  /\ UNCHANGED <<models, k2_enabled, worker, config, entries, use_k2, history, groups, gi,
                 anomalies, ai_analysis_failed, result, call, slept, anomalies_file,
                 summary_json, opt, mrg, det, net, trk, srv, log>>

(* batch_history[key] = history[k] for the tuple keys k found in history *)
BatchHistory(batch_entries, hist) ==
  [k \in {StrKey(batch_entries[i]) :
            i \in {j \in 1..Len(batch_entries) : TupleKey(batch_entries[j]) \in DOMAIN hist}} |->
     LET i == CHOOSE j \in 1..Len(batch_entries) :
                StrKey(batch_entries[j]) = k /\ TupleKey(batch_entries[j]) \in DOMAIN hist
     IN hist[TupleKey(batch_entries[i])]]

(* the merged result with the model information of the first batch result *)
MergedResult(batch_results) ==
  LET merged == merge_batch_results(batch_results)
      first == DictGet(batch_results[1], "summary", EmptyDict)
  IN IF batch_results # <<>> /\ "summary" \in DOMAIN batch_results[1]
     THEN TagResult(merged, DictGet(first, "analysis_model", "unknown"),
                    DictGet(first, "model_name", "unknown"))
     ELSE merged

(* k2_client.py 477-505 and 514-536: the next batch starts its analysis     *)
(* call; after the last one the job is marked completed and the results    *)
(* are merged. A TypeError of the merge reaches analyze_run's except       *)
(* branch (pipeline.py 284-293).                                           *)
analyze_batch ==
  /\ pc = "batch_loop"
  /\ IF batch.current_batch_num < Len(batch.batches)
     THEN LET n == batch.current_batch_num + 1
              batch_entries == batch.batches[n].entries
          IN /\ batch' = [batch EXCEPT !.current_batch_num = n]
             /\ Track(worker.job_id, "update_progress",
                      [current_batch |-> n, total_batches |-> Len(batch.batches)])
             /\ call' = [entries |-> batch_entries,
                         history |-> BatchHistory(batch_entries, batch.history),
                         ret |-> "batch", attempt |-> 0, model |-> 0,
                      last_error |-> ""]
             /\ slept' = <<>>
             /\ pc' = "select"
             /\ UNCHANGED <<result, ai_analysis_failed, anomalies>>
     ELSE /\ Track(worker.job_id, "update_progress", [status |-> "completed"])
          /\ UNCHANGED <<batch, call, slept>>
          /\ IF "raised" \in DOMAIN merge_batch_results(batch.batch_results)
             THEN /\ ai_analysis_failed' = TRUE
                  /\ anomalies' = heuristic_anomalies(entries, history, 10)
                  /\ pc' = "write"
                  /\ UNCHANGED result
             ELSE /\ result' = MergedResult(batch.batch_results)
                  /\ pc' = "extend"
                  /\ UNCHANGED <<ai_analysis_failed, anomalies>>
  /\ UNCHANGED <<models, k2_enabled, worker, config, entries, use_k2, history, groups, gi,
                 anomalies_file, summary_json, opt, mrg, det, net, trk, srv, log>>

(* k2_client.py 311-321: one turn of `for attempt in range(3)`: select an   *)
(* endpoint, report it as current_model                                    *)
_analyze_with_fallback ==
  /\ pc = "select"
  /\ call.attempt < MaxAttempts
  /\ LET model == _select_model(models)
     IN /\ models' = ModelsAfterSelect(models)
        /\ call' = [call EXCEPT !.model = model]
        /\ IF model = 0
           THEN /\ pc' = "exhausted"
                /\ UNCHANGED <<progress, persist_file, log>>
           ELSE /\ pc' = "call"
                /\ log' = Append(log, <<"using", models[model].name, call.attempt>>)
                /\ Track(worker.job_id, "update_progress",
                         [current_model |-> models[model].model])
  /\ UNCHANGED <<k2_enabled, worker, config, entries, use_k2, history, groups, gi, anomalies,
                 ai_analysis_failed, result, batch, slept, anomalies_file,
                 summary_json, opt, mrg, det, net, trk, srv>>

(* the analysis call returns `res` to its caller: analyze (standard path)   *)
(* or analyze_batch (batch path, which appends it to batch_results)        *)
ReturnResult(res) ==
  IF call.ret = "batch"
  THEN /\ batch' = [batch EXCEPT !.batch_results = Append(@, res)]
       /\ pc' = "batch_loop"
       /\ UNCHANGED result
  ELSE /\ result' = res
       /\ pc' = "analyze_done"
       /\ UNCHANGED batch

(* the counters left as they were by a success status *)
SucceededNotCounted(m) == m

(* model.success_count += 1; model.error_count = max(0, model.error_count - 1) *)
Succeeded(m) == [m EXCEPT !.success_count = @ + 1, !.error_count = Max(0, @ - 1)]

(* except Exception: model.error_count += 1 *)
Failed(m) == [m EXCEPT !.error_count = @ + 1]

(* the exponent of time.sleep(2 ** attempt) *)
(* a linear backoff in place of the exponential one *)
LinearBackoff(n) == n + 1

RECURSIVE Pow2(_)
Pow2(n) == IF n = 0 THEN 1 ELSE 2 * Pow2(n - 1)

(* k2_client.py 323-339 and 358-455: the request to the selected endpoint.  *)
(* HTTPError: the status is a client error (4xx other than 429) and        *)
(* raise_for_status raises; SSLError: the TLS handshake fails in           *)
(* session.post; RetryError: the adapter's retries on 429/5xx are used up; *)
(* JSONDecodeError: the status is a success but the body is not JSON and   *)
(* resp.json() raises; KeyError: the body is JSON but js["choices"] is     *)
(* missing; both come after the success was counted; ok: the               *)
(* reply carries a content. A content that parses to a JSON list is        *)
(* returned as it is and makes line 329 raise TypeError. A failure is kept *)
(* in last_error, counts an error, sleeps 2 ** attempt seconds and moves   *)
(* to the next attempt.                                                    *)
_analyze_with_model ==
  /\ pc = "call"
  /\ LET i == call.model
         used == [models EXCEPT ![i].idle = 0]
     IN \E outcome \in {"HTTPError", "SSLError", "RetryError", "JSONDecodeError",
                        "KeyError", "ok"} :
        \E content \in IF outcome = "ok"
                        THEN {r.content : r \in {q \in CoercedContents :
                                                   q.entry = call.entries[1]}}
                        ELSE {""} :
          LET res == ResponseResult(content, call.entries, call.history)
              error == IF outcome # "ok" THEN outcome
                       ELSE IF DOMAIN res = {} THEN "TypeError"
                       ELSE ""
          IN IF error # ""
             THEN /\ models' = Elapse([used EXCEPT ![i] =
                                         Failed(IF error \in {"JSONDecodeError", "KeyError",
                                                              "TypeError"}
                                                THEN Succeeded(@) ELSE @)],
                                      4 * Pow2(call.attempt))
                  /\ slept' = Append(slept, Pow2(call.attempt))
                  /\ log' = Append(log, <<"failed", models[i].name, call.attempt>>)
                  /\ call' = [call EXCEPT !.attempt = @ + 1, !.last_error = error]
                  /\ pc' = IF call.attempt + 1 < MaxAttempts THEN "select" ELSE "exhausted"
                  /\ UNCHANGED <<result, batch>>
             ELSE /\ \E ticks \in {1, 3} :
                       models' = Elapse([used EXCEPT ![i] = Succeeded(@)], ticks)
                  /\ ReturnResult(TagResult(res, models[i].model, models[i].name))
                  /\ UNCHANGED <<slept, call, log>>
  /\ UNCHANGED <<k2_enabled, worker, config, entries, use_k2, progress, persist_file, history,
                 groups, gi, anomalies, ai_analysis_failed, anomalies_file,
                 summary_json, opt, mrg, det, net, trk, srv>>

(* k2_client.py 341-356: no attempt succeeded: status failed, the heuristic *)
(* on the call's own entries and history, tagged "heuristic"               *)
_analyze_with_fallback_exhausted ==
  /\ pc = "exhausted"
  /\ Track(worker.job_id, "update_progress",
           [status |-> "failed", error_message |-> "last_error"])
  /\ ReturnResult(TagResult(fallback_to_heuristic(call.entries, call.history),
                            "heuristic", "heuristic"))
  /\ UNCHANGED <<models, k2_enabled, worker, config, entries, use_k2, history, groups, gi,
                 anomalies, ai_analysis_failed, call, slept, anomalies_file,
                 summary_json, opt, mrg, det, net, trk, srv, log>>

(* k2_client.py 293-302: the standard path returns: completed, 1 of 1 *)
analyze_return ==
  /\ pc = "analyze_done"
  /\ Track(worker.job_id, "update_progress",
           [status |-> "completed", current_batch |-> 1, total_batches |-> 1])
  /\ pc' = "extend"
  /\ UNCHANGED <<models, k2_enabled, worker, config, entries, use_k2, history, groups, gi,
                 anomalies, ai_analysis_failed, result, call, batch, slept,
                 anomalies_file, summary_json, opt, mrg, det, net, trk, srv, log>>

(* pipeline.py 282-283: anomalies.extend(_normalize_k2_anomalies(...)) *)
analyze_run_extend ==
  /\ pc = "extend"
  /\ anomalies' = anomalies \o _normalize_k2_anomalies(DictGet(result, "anomalies", <<>>))
  /\ gi' = gi + 1
  /\ pc' = "group"
  /\ UNCHANGED <<models, k2_enabled, worker, config, entries, use_k2, progress, persist_file,
                 history, groups, ai_analysis_failed, result, call, batch, slept,
                 anomalies_file, summary_json, opt, mrg, det, net, trk, srv, log>>

(* pipeline.py 299 and utils/io.py 55-59: write_jsonl opens the anomalies  *)
(* file with mode "w", which truncates it, and writes the rows one by one. *)
(* When ensure_dir or open raises the file is as it was; when a write, the *)
(* flush or the close raises the file holds a prefix of the text: the      *)
(* first k rows and, with rows left, possibly the cut line of the next     *)
(* one. An error reaches the worker's except and leaves summary.json and   *)
(* the report as they were.                                                *)
analyze_run_write ==
  /\ pc = "write"
  /\ \E io_error \in {"none", "open", "write"} :
     \E k \in 0..Len(anomalies), cut \in BOOLEAN :
       /\ io_error \in {"none", "open"} => (k = Len(anomalies) /\ ~cut)
       /\ cut => k < Len(anomalies)
       /\ anomalies_file' = IF io_error = "open" THEN anomalies_file
                            ELSE [File(SubSeq(anomalies, 1, k)) EXCEPT !.cut = cut]
       /\ pc' = IF io_error = "none" THEN "summary" ELSE "work_except"
  /\ UNCHANGED <<models, k2_enabled, worker, config, entries, use_k2, progress, persist_file,
                 history, groups, gi, anomalies, ai_analysis_failed, result, call,
                 batch, slept, summary_json, opt, mrg, det, net, trk, srv, log>>

(* pipeline.py 300-334 and utils/io.py 44-47: the summary with its          *)
(* analysis_engine, written by write_json: open with mode "w", then        *)
(* json.dump. When open raises summary.json is as it was; when the dump    *)
(* raises it is left with 0 bytes or with a cut document.                  *)
analyze_run_summary ==
  /\ pc = "summary"
  /\ \E io_error \in {"none", "open", "write"}, cut \in BOOLEAN :
       /\ cut => io_error = "write"
       /\ summary_json' = IF io_error = "open" THEN summary_json
                          ELSE IF io_error = "write" THEN [File(<<>>) EXCEPT !.cut = cut]
                          ELSE File(RunSummary(anomalies, use_k2 /\ k2_enabled,
                                               ai_analysis_failed, models))
       /\ pc' = IF io_error = "none" THEN "report" ELSE "work_except"
  /\ UNCHANGED <<models, k2_enabled, worker, config, entries, use_k2, progress, persist_file,
                 history, groups, gi, anomalies, ai_analysis_failed, result, call,
                 batch, slept, anomalies_file, opt, mrg, det, net, trk, srv, log>>

(* pipeline.py 336-337: generate_report writes report.html, which is not a  *)
(* variable here, and analyze_run returns; a report that raises reaches    *)
(* the worker's except with both files written                             *)
analyze_run_report ==
  /\ pc = "report"
  /\ \E raises \in BOOLEAN : pc' = IF raises THEN "work_except" ELSE "work_ok"
  /\ UNCHANGED <<models, k2_enabled, worker, config, entries, use_k2, progress, persist_file,
                 history, groups, gi, anomalies, ai_analysis_failed, result, call,
                 batch, slept, anomalies_file, summary_json, opt, mrg, det, net,
                 trk, srv, log>>

(* server.py 1772-1781: the worker's last tracker update *)
_work_with_progress_finish ==
  /\ pc \in {"work_ok", "work_except"}
  /\ Track(JobId, "update_progress",
           IF pc = "work_ok"
           THEN [status |-> "completed", current_batch |-> 1, total_batches |-> 1]
           ELSE [status |-> "failed", error_message |-> "str(e)"])
  /\ pc' = "returned"
  /\ UNCHANGED <<models, k2_enabled, worker, config, entries, use_k2, history, groups, gi,
                 anomalies, ai_analysis_failed, result, call, batch, slept,
                 anomalies_file, summary_json, opt, mrg, det, net, trk, srv, log>>

(* pipeline.py 229-243: a later analyze_run of the same run with            *)
(* reuse_existing = True. read_jsonl (utils/io.py 68-72) parses every line *)
(* that is not blank: on a file with a cut line json.loads raises and the  *)
(* call ends there. With rows read the file is summarized again and        *)
(* summary.json rewritten, no model is called; write_json or the           *)
(* generate_report after it may raise: when its open raises summary.json   *)
(* is as it was, when its dump raises the file is left with 0 bytes or     *)
(* with a cut document.                                                    *)
(* (With no row and no cut line the call is the analysis above.)           *)
analyze_run_reuse ==
  /\ pc = "returned"
  /\ anomalies_file.cut \/ anomalies_file.data # <<>>
  /\ \E io_error \in {"none", "open", "write", "report"}, cut \in BOOLEAN :
       /\ cut => io_error = "write"
       /\ summary_json' = IF anomalies_file.cut \/ io_error = "open" THEN summary_json
                          ELSE IF io_error = "write" THEN [File(<<>>) EXCEPT !.cut = cut]
                          ELSE File(WithField(summarize(anomalies_file.data),
                                              "analysis_engine",
                                              [name |-> "kimi-k2", version |-> "n/a",
                                               degraded |-> FALSE]))
  /\ pc' = "reused"
  /\ UNCHANGED <<models, k2_enabled, worker, config, entries, use_k2, progress, persist_file,
                 history, groups, gi, anomalies, ai_analysis_failed, result, call,
                 batch, slept, anomalies_file, opt, mrg, det, net, trk, srv, log>>

(* server.py 1595-1641, the worker of action_reanalyze_all_missing: one     *)
(* K2Client for every run of to_process (the runs that have no anomalies   *)
(* file). analyze_run has returned or raised (the loop's except) and is    *)
(* called, without job_id (1624), on the next run directory, whose files   *)
(* are not there yet; the client keeps the counters of its endpoints. The  *)
(* runs hold the same entries; log keeps the lines of the run under        *)
(* analysis.                                                               *)
action_reanalyze_all_missing ==
  /\ pc \in {"work_ok", "work_except"}
  /\ worker.idx < worker.total
  /\ worker' = [worker EXCEPT !.idx = @ + 1]
  /\ pc' = "analyze_run"
  /\ history' = EmptyDict
  /\ groups' = <<>>
  /\ gi' = 0
  /\ anomalies' = <<>>
  /\ ai_analysis_failed' = FALSE
  /\ result' = EmptyDict
  /\ call' = NoCall
  /\ batch' = NoBatch
  /\ slept' = <<>>
  /\ anomalies_file' = NoFile
  /\ summary_json' = NoFile
  /\ log' = <<>>
  /\ UNCHANGED <<models, k2_enabled, config, entries, use_k2, progress, persist_file,
                 opt, mrg, det, net, trk, srv>>

Spec ==
  Init /\ [][\/ reanalyze_single_run
              \/ _work_with_progress
              \/ analyze_run_begin
              \/ analyze_run_group
              \/ analyze
              \/ _analyze_batch_optimized
              \/ analyze_batch
              \/ _analyze_with_fallback
              \/ _analyze_with_model
              \/ _analyze_with_fallback_exhausted
              \/ analyze_return
              \/ analyze_run_extend
              \/ analyze_run_write
              \/ analyze_run_summary
              \/ analyze_run_report
              \/ _work_with_progress_finish
              \/ analyze_run_reuse]_vars

(* the client of action_reanalyze_all_missing (engine auto or k2) with two  *)
(* enabled endpoints, of one priority or of two, at the first run          *)
InitRuns ==
  /\ \E env \in {e \in EnvConfigs :
                   Len(_load_models_config(e.models_cfg, e.cfg_has_key)) = 2} :
       models = _load_models_config(env.models_cfg, env.cfg_has_key)
  /\ k2_enabled = TRUE
  /\ \E total \in 2..MaxRuns : worker = [job_id |-> None, idx |-> 1, total |-> total]
  /\ config = [max_batch_size |-> 10, min_batch_size |-> 3]
  /\ entries = <<Entry("UB", "c1", "Dhrystone 2", 160)>>
  /\ use_k2 = TRUE
  /\ pc = "analyze_run"
  /\ progress = EmptyDict
  /\ persist_file = EmptyDict
  /\ history = EmptyDict
  /\ groups = <<>>
  /\ gi = 0
  /\ anomalies = <<>>
  /\ ai_analysis_failed = FALSE
  /\ result = EmptyDict
  /\ call = NoCall
  /\ batch = NoBatch
  /\ slept = <<>>
  /\ anomalies_file = NoFile
  /\ summary_json = NoFile
  /\ opt = OptIdle
  /\ mrg = MrgIdle
  /\ det = DetIdle
  /\ net = NetIdle
  /\ trk = ThreadsIdle
  /\ srv = ThreadsIdle
  /\ log = <<>>

SpecRuns ==
  InitRuns /\ [][\/ analyze_run_begin
                  \/ analyze_run_group
                  \/ analyze
                  \/ _analyze_with_fallback
                  \/ _analyze_with_model
                  \/ _analyze_with_fallback_exhausted
                  \/ analyze_return
                  \/ analyze_run_extend
                  \/ analyze_run_write
                  \/ analyze_run_summary
                  \/ analyze_run_report
                  \/ action_reanalyze_all_missing]_vars

----------------------------------------------------------------------------
(* Claims about the job                                                     *)

(* the logger lines of the job's analysis calls: every attempt failed *)
AllCallsFailed ==
  /\ log # <<>>
  /\ Cardinality({i \in 1..Len(log) : log[i][1] = "using"})
       = Cardinality({i \in 1..Len(log) : log[i][1] = "failed"})

(* C1: when the client is enabled and every endpoint call of the run's     *)
(* analysis calls failed, the summary analyze_run wrote (a summary.json    *)
(* whose write did not fail) has analysis_engine.name = "heuristic" and    *)
(* analysis_engine.degraded = true                                         *)
C1_HeuristicEngineWhenAllCallsFail ==
  ( /\ pc = "returned" /\ use_k2 /\ k2_enabled /\ AllCallsFailed
    /\ summary_json.exists /\ "analysis_engine" \in DOMAIN summary_json.data )
    => /\ summary_json.data.analysis_engine.name = "heuristic"
       /\ summary_json.data.analysis_engine.degraded = TRUE

(* C2: when all attempts of an analysis call issued by analyze_run failed,  *)
(* the anomalies K2Client.analyze returns for the group are the anomalies  *)
(* heuristic_anomalies gives for the same entries against the baseline     *)
(* load_history_for_keys built for the run                                 *)
C2_FallbackEqualsDetectorOnBaseline ==
  (pc = "analyze_done" /\ call.attempt = MaxAttempts)
    => result.anomalies = heuristic_anomalies(call.entries, history, 10)

(* C3: within one analysis call, after an attempt on endpoint E failed and  *)
(* another enabled endpoint with error_count < 5 exists, the next attempt  *)
(* goes to an endpoint other than E                                        *)
C3_RotatesAfterFailure ==
  [][(/\ pc = "select"
      /\ call.attempt > 0
      /\ pc' = "call"
      /\ \E i \in 1..Len(models) :
           i # call.model /\ models[i].enabled /\ models[i].error_count < 5)
     => call'.model # call.model]_vars

(* C4: an analysis call makes at most 3 attempts, has slept 2^attempt       *)
(* seconds (1, 2, 4) after each failed attempt 0, 1, 2, and returns a      *)
(* result: the heuristic one after three failures, a model's otherwise     *)
C4_BoundedAttemptsBackoffAndReturn ==
  /\ call.attempt <= 3
  /\ \A i \in 1..Len(log) : log[i][3] < 3
  /\ slept = SubSeq(<<1, 2, 4>>, 1, call.attempt)
  /\ pc = "exhausted" => call.attempt = 3
  /\ pc = "analyze_done" =>
       /\ "anomalies" \in DOMAIN result
       /\ IF call.attempt = 3
          THEN result.summary.analysis_model = "heuristic"
          ELSE result.summary.analysis_model = models[call.model].model

C4_Witness ==
  pc = "analyze_done" /\ call.attempt = 3 /\ slept = <<1, 2, 4>>
    /\ result.summary.analysis_model = "heuristic"

(* C5: _select_model never returns a disabled endpoint, and never one with  *)
(* error_count >= 5 while an enabled endpoint with error_count < 5 exists  *)
C5_SelectsQualifyingEndpoint ==
  [][(pc = "select" /\ pc' = "call")
     => /\ models[call'.model].enabled
        /\ (\E i \in 1..Len(models) : models[i].enabled /\ models[i].error_count < 5)
             => models[call'.model].error_count < 5]_vars

C5_Witness ==
  /\ pc = "call"
  /\ models[call.model].error_count < 5
  /\ \E i \in 1..Len(models) : models[i].error_count >= 5

(* C9: once the job's status is "completed" or "failed", no later tracker   *)
(* operation for the job id changes it                                     *)
C9_TerminalStatusAbsorbing ==
  [][(JobId \in DOMAIN progress /\ progress[JobId].status \in {"completed", "failed"})
     => (JobId \in DOMAIN progress' /\ progress'[JobId].status = progress[JobId].status)]_vars

(* C10: the current_batch recorded for the job never decreases from the    *)
(* job's creation to its final status                                      *)
C10_CurrentBatchMonotonic ==
  [][(JobId \in DOMAIN progress /\ JobId \in DOMAIN progress')
     => progress'[JobId].current_batch >= progress[JobId].current_batch]_vars

----------------------------------------------------------------------------
(* BatchOptimizer exercised alone: optimize_batches and _generate_batch_id  *)
(* on entry lists drawn from a small pool                                  *)

MaxEntries == 3

(* entries of two suites and two metric types *)
EntryPool ==
  { Entry("UB", "c1", "Dhrystone 2", 160), Entry("UB", "c2", "Dhrystone 2", 100),
    Entry("UB", "c3", "File Copy", 100), Entry("Net", "c1", "File Copy", 100) }

EntryLists == UNION {[1..n -> EntryPool] : n \in 0..MaxEntries}

(* max_batch_size >= min_batch_size >= 1 *)
BatchSizes ==
  { [max_batch_size |-> 1, min_batch_size |-> 1],
    [max_batch_size |-> 2, min_batch_size |-> 1],
    [max_batch_size |-> 2, min_batch_size |-> 2],
    [max_batch_size |-> 10, min_batch_size |-> 3] }

(* histories keyed by (suite, case, metric): none, or twenty samples of     *)
(* (UB, c1, Dhrystone 2), enough for _evaluate_severity to grade the entry *)
BatchHistories ==
  { EmptyDict,
    [k \in {<<"UB", "c1", "Dhrystone 2">>} |-> BaselineValues \o BaselineValues] }

(* the job's variables while a pure function is exercised alone *)
JobIdle ==
  /\ models = <<>>
  /\ k2_enabled = FALSE
  /\ worker = [job_id |-> None, idx |-> 0, total |-> 0]
  /\ config = [max_batch_size |-> 10, min_batch_size |-> 3]
  /\ entries = <<>>
  /\ use_k2 = FALSE
  /\ pc = "off"
  /\ progress = EmptyDict
  /\ persist_file = EmptyDict
  /\ history = EmptyDict
  /\ groups = <<>>
  /\ gi = 0
  /\ anomalies = <<>>
  /\ ai_analysis_failed = FALSE
  /\ result = EmptyDict
  /\ call = NoCall
  /\ batch = NoBatch
  /\ slept = <<>>
  /\ anomalies_file = NoFile
  /\ summary_json = NoFile
  /\ log = <<>>

JobUnchanged ==
  UNCHANGED <<models, k2_enabled, worker, config, entries, use_k2, pc, progress,
              persist_file, history, groups, gi, anomalies, ai_analysis_failed, result, call, batch,
              slept, anomalies_file, summary_json, log>>

InitBatch ==
  /\ JobIdle
  /\ mrg = MrgIdle
  /\ det = DetIdle
  /\ net = NetIdle
  /\ trk = ThreadsIdle
  /\ srv = ThreadsIdle
  /\ \E self \in BatchSizes, es \in EntryLists, hist \in BatchHistories :
       opt = [phase |-> "input", self |-> self, entries |-> es, history |-> hist]

(* batches = optimizer.optimize_batches(entries, history) *)
OptimizeBatches ==
  /\ opt.phase = "input"
  /\ opt' = [phase |-> "batches", self |-> opt.self, entries |-> opt.entries,
             history |-> opt.history,
             batches |-> optimize_batches(opt.self, opt.entries, opt.history)]
  /\ JobUnchanged
  /\ UNCHANGED <<mrg, det, net, trk, srv>>

(* the sequence s taken in the order p *)
Reordered(s, p) == [i \in 1..Len(s) |-> s[p[i]]]

(* optimizer._generate_batch_id on the entries and on a reordering of them *)
GenerateBatchId ==
  /\ opt.phase = "input"
  /\ \E p \in Permutations(1..Len(opt.entries)) :
       opt' = [phase |-> "ids", entries |-> opt.entries,
               reordered |-> Reordered(opt.entries, p),
               batch_id |-> _generate_batch_id(opt.entries),
               reordered_id |-> _generate_batch_id(Reordered(opt.entries, p))]
  /\ JobUnchanged
  /\ UNCHANGED <<mrg, det, net, trk, srv>>

SpecBatch ==
  InitBatch /\ [][\/ OptimizeBatches
                   \/ GenerateBatchId]_vars

(* C6: every batch optimize_batches returns holds at most max_batch_size    *)
(* entries, for every entry list and max_batch_size >= min_batch_size >= 1 *)
C6_BatchWithinMaxSize ==
  opt.phase = "batches" =>
    \A i \in 1..Len(opt.batches) :
      Len(opt.batches[i].entries) <= opt.self.max_batch_size

(* C7: _generate_batch_id gives the same identifier for any two orderings   *)
(* of the same entries                                                     *)
C7_BatchIdOrderIndependent ==
  opt.phase = "ids" => opt.batch_id = opt.reordered_id

(* C24: the metadata of every batch optimize_batches returns matches its    *)
(* final entries: batch_id is the identifier of batch.entries, features    *)
(* holds the feature of every entry, priority is the minimum over the      *)
(* entries of int(100 - min(|robust_z|, 100)), 100 without any z-score,    *)
(* and size is len(entries)                                                *)
C24_BatchMetadataMatchesEntries ==
  opt.phase = "batches" =>
    LET features == compute_entry_features(opt.entries, opt.history)
    IN \A i \in 1..Len(opt.batches) :
         LET b == opt.batches[i]
             keys == {StrKey(b.entries[j]) : j \in 1..Len(b.entries)}
             scores == {PrioritySeverity(features[k].robust_z) :
                          k \in {q \in keys : ~IsNone(features[q].robust_z)}}
         IN /\ b.batch_id = _generate_batch_id(b.entries)
            /\ DOMAIN b.features = keys
            /\ \A k \in keys : b.features[k] = features[k]
            /\ b.priority = (IF scores = {} THEN 100
                             ELSE CHOOSE x \in scores : \A y \in scores : x <= y)
            /\ b.size = Len(b.entries)

(* the number of times entry e occurs in the list *)
Occurrences(es, e) == Cardinality({i \in 1..Len(es) : es[i] = e})

(* C25: optimize_batches partitions its input: every entry occurs in the    *)
(* batches as often as in the input, and the entries of one batch share    *)
(* the suite and the severity tier of the grouping                         *)
C25_BatchesPartitionInput ==
  opt.phase = "batches" =>
    LET features == compute_entry_features(opt.entries, opt.history)
        tier(e) == _evaluate_severity(e, DictGet(features, StrKey(e), NoFeature),
                                      opt.history)
        RECURSIVE InBatches(_, _)
        InBatches(bs, e) ==
          IF bs = <<>> THEN 0
          ELSE Occurrences(bs[1].entries, e) + InBatches(Tail(bs), e)
    IN /\ \A e \in EntryPool : InBatches(opt.batches, e) = Occurrences(opt.entries, e)
       /\ \A i \in 1..Len(opt.batches) :
            \A j, k \in 1..Len(opt.batches[i].entries) :
              LET ej == opt.batches[i].entries[j]
                  ek == opt.batches[i].entries[k]
              IN ej.suite = ek.suite /\ tier(ej) = tier(ek)

(* three entries of one suite came back as two batches, one of a single    *)
(* graded entry and one of two entries                                     *)
C25_Witness ==
  /\ opt.phase = "batches"
  /\ Len(opt.entries) = 3
  /\ Len(opt.batches) = 2
  /\ \E i, j \in 1..2 :
       /\ Len(opt.batches[i].entries) = 1
       /\ Len(opt.batches[j].entries) = 2
       /\ opt.batches[i].priority < 100
       /\ opt.batches[i].entries[1].suite = opt.batches[j].entries[1].suite

----------------------------------------------------------------------------
(* merge_batch_results exercised alone on lists of batch results           *)

MaxAnomalies == 3

AnomalyRec(case, severity) == [suite |-> "UB", case |-> case, metric |-> "m", severity |-> severity]

(* anomaly records of two keys: without a confidence, with a number (in    *)
(* 1/10000), with null, with the string "high" (-4) or "low" (-3)          *)
AnomalyPool ==
  { AnomalyRec("c1", "high"),
    WithField(AnomalyRec("c1", "high"), "confidence", 5000),
    WithField(AnomalyRec("c1", "high"), "confidence", None),
    WithField(AnomalyRec("c1", "medium"), "confidence", -4),
    WithField(AnomalyRec("c1", "low"), "confidence", -3),
    WithField(AnomalyRec("c1", "medium"), "confidence", 9000),
    WithField(AnomalyRec("c1", "low"), "confidence", 9000),
    AnomalyRec("c2", "low"),
    WithField(AnomalyRec("c2", "high"), "confidence", 5000),
    WithField(AnomalyRec("c2", "medium"), "confidence", 9000) }

AnomalyLists == UNION {[1..n -> AnomalyPool] : n \in 0..MaxAnomalies}

(* the anomalies as two batch results, the first holding the first k *)
SplitResults(all, k) ==
  <<[anomalies |-> SubSeq(all, 1, k), summary |-> [total_anomalies |-> k]],
    [anomalies |-> SubSeq(all, k + 1, Len(all))]>>

InitMerge ==
  /\ JobIdle
  /\ opt = OptIdle
  /\ det = DetIdle
  /\ net = NetIdle
  /\ trk = ThreadsIdle
  /\ srv = ThreadsIdle
  /\ \E all \in AnomalyLists : \E k \in 0..Len(all) :
       mrg = [phase |-> "input", batch_results |-> SplitResults(all, k)]

(* merged = optimizer.merge_batch_results(batch_results) *)
MergeBatchResults ==
  /\ mrg.phase = "input"
  /\ mrg' = [phase |-> "merged", batch_results |-> mrg.batch_results,
             merged |-> merge_batch_results(mrg.batch_results)]
  /\ JobUnchanged
  /\ UNCHANGED <<opt, det, net, trk, srv>>

SpecMerge == InitMerge /\ [][MergeBatchResults]_vars

(* the (suite, case, metric) of a record and its confidence, 0 when absent *)
RecordKey(a) == <<a.suite, a.case, a.metric>>

RecordConfidence(a) == IF "confidence" \in DOMAIN a THEN a.confidence ELSE 0

MergeInputs == mrg.batch_results[1].anomalies \o mrg.batch_results[2].anomalies

(* C8: for every list of batch results merge_batch_results returns a       *)
(* result (it does not raise) holding exactly one record per distinct      *)
(* (suite, case, metric) of its input, and that record is an input record  *)
(* of the key with the highest confidence                                  *)
C8_OneHighestConfidenceRecordPerKey ==
  mrg.phase = "merged" =>
    LET out == DictGet(mrg.merged, "anomalies", <<>>)
    IN /\ "raised" \notin DOMAIN mrg.merged
       /\ \A i, j \in 1..Len(out) : i # j => RecordKey(out[i]) # RecordKey(out[j])
       /\ {RecordKey(out[i]) : i \in 1..Len(out)}
            = {RecordKey(MergeInputs[i]) : i \in 1..Len(MergeInputs)}
       /\ \A i \in 1..Len(out) :
            /\ \E j \in 1..Len(MergeInputs) : MergeInputs[j] = out[i]
            /\ \A j \in 1..Len(MergeInputs) :
                 RecordKey(MergeInputs[j]) = RecordKey(out[i])
                   => RecordConfidence(MergeInputs[j]) <= RecordConfidence(out[i])

----------------------------------------------------------------------------
(* The detector and the baseline builder exercised alone on bounded inputs  *)

(* histories of one key: the baseline of the run model (median 100, MAD 1), *)
(* a wide one (median 100, MAD 10), two of MAD 0 (constant, and constant   *)
(* but for two outliers), one of median 0, a nine-sample and a             *)
(* three-sample one                                                        *)
DetectHistories ==
  { BaselineValues,
    <<80, 90, 90, 100, 100, 100, 110, 110, 120, 100>>,
    <<100, 100, 100, 100, 100, 100, 100, 100, 100, 100>>,
    <<100, 100, 100, 100, 100, 100, 100, 100, 50, 150>>,
    <<-2, -1, -1, 0, 0, 0, 0, 1, 1, 2>>,
    SubSeq(BaselineValues, 1, 9),
    <<100, 101, 99>> }

(* current values on both sides of every tier of both baselines *)
DetectCurrents == {0, 50, 65, 75, 88, 100, 112, 125, 135, 140, 150, 160, 190, 220}

(* ub.jsonl files over three keys: rows of several keys, a key twice in one  *)
(* file, values float() rejects, a row of a key nobody asks for, an empty  *)
(* file                                                                    *)
FilePool ==
  LET A(value) == Row("UB", "c1", "m", value)
      B(value) == Row("UB", "c2", "m", value)
      C(value) == Row("UB", "c3", "m", value)
  IN { <<A(NumV(1)), B(NumV(2))>>,
       <<B(NumV(3)), B(NumV(4)), C(NumV(9))>>,
       <<A(BadV), B(NumV(5))>>,
       <<A(NumV(6)), A(NumV(7)), B(BadV)>>,
       <<>> }

MaxFiles == 3

(* the archive's files in scan order, newest first *)
Archives == UNION {[1..n -> FilePool] : n \in 0..MaxFiles}

InitDetect ==
  /\ JobIdle
  /\ opt = OptIdle
  /\ mrg = MrgIdle
  /\ net = NetIdle
  /\ trk = ThreadsIdle
  /\ srv = ThreadsIdle
  /\ \/ \E hist \in DetectHistories, current \in DetectCurrents, min_samples \in {3, 10} :
          det = [phase |-> "input", current |-> current, hist |-> hist,
                 min_samples_for_anomaly |-> min_samples]
     \/ \E files \in Archives,
           keys \in {<<<<"UB", "c1", "m">>>>, <<<<"UB", "c1", "m">>, <<"UB", "c2", "m">>>>,
                     <<<<"UB", "c2", "m">>, <<"UB", "c1", "m">>, <<"UB", "c2", "m">>>>},
           max_runs \in {None, 0, 1, 2, 5}, min_samples \in {1, 2, 3} :
          det = [phase |-> "archive", files |-> files, keys |-> keys,
                 max_runs |-> max_runs, min_samples |-> min_samples]

(* heuristic_anomalies([entry], {key: hist}, min_samples_for_anomaly) *)
Detect ==
  /\ det.phase = "input"
  /\ LET e == Entry("UB", "c1", "Dhrystone 2", det.current)
     IN det' = [phase |-> "detected", current |-> det.current, hist |-> det.hist,
                min_samples_for_anomaly |-> det.min_samples_for_anomaly,
                records |-> heuristic_anomalies(<<e>>, [k \in {TupleKey(e)} |-> det.hist],
                                                det.min_samples_for_anomaly)]
  /\ JobUnchanged
  /\ UNCHANGED <<opt, mrg, net, trk, srv>>

(* load_history_for_keys(archive_root, keys, max_runs, min_samples) *)
LoadHistory ==
  /\ det.phase = "archive"
  /\ \E set_order \in SetOrders(Range(det.keys)) :
       det' = [phase |-> "loaded", files |-> det.files, keys |-> det.keys,
               max_runs |-> det.max_runs, min_samples |-> det.min_samples,
               history |-> load_history_for_keys(det.files, det.keys, det.max_runs,
                                                 det.min_samples, set_order)]
  /\ JobUnchanged
  /\ UNCHANGED <<opt, mrg, net, trk, srv>>

SpecDetect ==
  InitDetect /\ [][\/ Detect
                    \/ LoadHistory]_vars

(* |z| >= zmin and |pct| >= pctmin/100 for the robust z-score z and the     *)
(* fractional change pct of the detected value against its history         *)
Deviates(zmin, pctmin) ==
  LET med2 == Median2x(det.hist)
      mad4 == median_absolute_deviation(det.hist)
  IN /\ 2 * Abs(2 * det.current - med2) * 10000 >= zmin * 14826 * mad4
     /\ 100 * Abs(2 * det.current - med2) >= pctmin * Abs(med2)

(* the history is long enough and both statistics are defined *)
Gradable ==
  /\ Len(det.hist) >= det.min_samples_for_anomaly
  /\ median_absolute_deviation(det.hist) # 0
  /\ Median2x(det.hist) # 0

(* C11: heuristic_anomalies gives the highest tier whose two thresholds     *)
(* both hold: high for |z| >= 8.0 and |pct| >= 0.50, medium for 6.0 and    *)
(* 0.35, low for 4.0 and 0.25, and no record otherwise; whatever           *)
(* qualifies for high also meets the thresholds of medium and of low       *)
C11_HighestTierWhoseConditionHolds ==
  (det.phase = "detected" /\ Gradable) =>
    /\ Deviates(8, 50) => (Deviates(6, 35) /\ Deviates(4, 25))
    /\ Deviates(6, 35) => Deviates(4, 25)
    /\ LET tier == IF Deviates(8, 50) THEN "high"
                   ELSE IF Deviates(6, 35) THEN "medium"
                   ELSE IF Deviates(4, 25) THEN "low"
                   ELSE "none"
       IN IF tier = "none" THEN det.records = <<>>
          ELSE Len(det.records) = 1 /\ det.records[1].severity = tier

(* a value whose change alone would be high (60%) graded low by its z-score *)
C11_Witness ==
  /\ det.phase = "detected"
  /\ Gradable
  /\ Deviates(0, 50)
  /\ ~Deviates(6, 0)
  /\ Len(det.records) = 1
  /\ det.records[1].severity = "low"

(* C12: heuristic_anomalies gives no record for an entry whose history is   *)
(* shorter than min_samples_for_anomaly, nor for one whose history has a   *)
(* MAD of 0, however far the current value lies from the history           *)
C12_NoRecordForShortOrFlatHistory ==
  (/\ det.phase = "detected"
   /\ \/ Len(det.hist) < det.min_samples_for_anomaly
      \/ median_absolute_deviation(det.hist) = 0)
    => det.records = <<>>

(* a value 120% above a long enough history of MAD 0, and no record *)
C12_Witness ==
  /\ det.phase = "detected"
  /\ Len(det.hist) >= det.min_samples_for_anomaly
  /\ median_absolute_deviation(det.hist) = 0
  /\ det.current = 220
  /\ Median2x(det.hist) = 200
  /\ det.records = <<>>

(* the scenario: the ten-sample baseline, current value 140, minimum 10 *)
Scenario140 ==
  /\ det.phase = "detected"
  /\ det.hist = <<100, 101, 99, 100, 102, 98, 101, 100, 99, 100>>
  /\ det.current = 140
  /\ det.min_samples_for_anomaly = 10

(* C13 as stated: for history [100,101,99,100,102,98,101,100,99,100] and    *)
(* current value 140 (change 0.40, robust z about 27) heuristic_anomalies  *)
(* with min_samples_for_anomaly = 10 emits a record of severity "high"     *)
C13_ScenarioGradedHigh ==
  Scenario140 => (Len(det.records) = 1 /\ det.records[1].severity = "high")

(* C13 amended: in that scenario heuristic_anomalies emits exactly one      *)
(* record and its severity is "medium": the change of 0.40 is below the    *)
(* 0.50 that high requires and meets the 0.35 of medium                    *)
C13_ScenarioGradedMedium ==
  Scenario140 => (Len(det.records) = 1 /\ det.records[1].severity = "medium")

(* the scenario has run and produced its record *)
C13_Witness ==
  /\ Scenario140
  /\ Deviates(26, 40)
  /\ ~Deviates(27, 41)
  /\ Len(det.records) = 1

(* C14: every record analyze_run writes with a severity set has a non-null  *)
(* confidence, a non-null primary_reason and at least one root cause,      *)
(* whether heuristic_anomalies produced it or the normalisation of a       *)
(* model response; "None" stands for a null string field                   *)
C14_WrittenRecordsComplete ==
  anomalies_file.exists =>
    \A i \in 1..Len(anomalies_file.data) :
      LET a == anomalies_file.data[i]
      IN a.severity # "None" =>
           /\ a.confidence # None
           /\ a.primary_reason # "None"
           /\ a.root_causes # <<>>

(* the numeric values of key k in the archive, in scan order *)
RECURSIVE AvailableValues(_, _)
AvailableValues(files, k) ==
  IF files = <<>> THEN <<>>
  ELSE LET RECURSIVE OfRows(_)
           OfRows(rows) ==
             IF rows = <<>> THEN <<>>
             ELSE (IF <<rows[1].suite, rows[1].case, rows[1].metric>> = k /\ rows[1].value.num
                   THEN <<rows[1].value.v>> ELSE <<>>) \o OfRows(Tail(rows))
       IN OfRows(files[1]) \o AvailableValues(Tail(files), k)

(* max_runs when given, else max(min_samples, largest available count) *)
StatedCap ==
  IF det.max_runs # None THEN det.max_runs
  ELSE Max(det.min_samples,
           SetMax({Len(AvailableValues(det.files, det.keys[i])) : i \in 1..Len(det.keys)}))

(* C15: for every requested key load_history_for_keys returns exactly the   *)
(* first min(cap, available) numeric values of the key in newest-to-oldest *)
(* scan order, cap being max_runs when given and max(min_samples, largest  *)
(* per-key count of available numeric values) when max_runs is unset       *)
C15_FirstValuesUpToCap ==
  det.phase = "loaded" =>
    \A i \in 1..Len(det.keys) :
      LET avail == AvailableValues(det.files, det.keys[i])
      IN DictGet(det.history, det.keys[i], <<>>)
           = SubSeq(avail, 1, Min(StatedCap, Len(avail)))

(* the example at scale: max_runs unset, min_samples 2, one value of key A  *)
(* and four of key B: the cap is 4 and key A keeps its single value        *)
C15_Witness ==
  /\ det.phase = "loaded"
  /\ det.max_runs = None
  /\ det.min_samples = 2
  /\ Len(AvailableValues(det.files, <<"UB", "c1", "m">>)) = 1
  /\ Len(AvailableValues(det.files, <<"UB", "c2", "m">>)) = 4
  /\ <<"UB", "c2", "m">> \in DOMAIN det.history
  /\ Len(det.history[<<"UB", "c1", "m">>]) = 1
  /\ Len(det.history[<<"UB", "c2", "m">>]) = 4

----------------------------------------------------------------------------
(* K2Client._analyze_with_model exercised alone: one call against an        *)
(* endpoint whose answers to the successive requests are drawn beforehand  *)

(* Retry(total=3, backoff_factor=1, ...) *)
RetryTotal == 3

BackoffFactor == 1

MaxResponses == 4

(* what the endpoint does. An answer is a status with its Retry-After       *)
(* header and, for a success, whether the body is a JSON document, whether *)
(* the document has "choices", and the reply content; status 0 is a TLS    *)
(* handshake that fails. First come answers the adapter retries (429 with  *)
(* Retry-After: 2, 503 without the header, 500 with Retry-After: 3, a      *)
(* failing handshake), then a last answer: a success with a content, one   *)
(* without "choices", one whose body is not JSON, a 401, a failing         *)
(* handshake                                                               *)
Servers(run) ==
  LET Response(status, retry_after, json, choices, content) ==
        [status |-> status, retry_after |-> retry_after, json |-> json,
         choices |-> choices, content |-> content]
      retried == {Response(429, 2, FALSE, FALSE, ""), Response(503, None, FALSE, FALSE, ""),
                  Response(500, 3, FALSE, FALSE, ""), Response(0, None, FALSE, FALSE, "")}
      last == {Response(200, None, TRUE, TRUE, r.content) :
                 r \in {q \in CoercedContents : q.entry = run[1]}}
                \cup {Response(200, None, TRUE, FALSE, ""),
                      Response(200, None, FALSE, FALSE, ""),
                      Response(401, None, FALSE, FALSE, ""),
                      Response(0, None, FALSE, FALSE, "")}
  IN { [failures |-> failures, final |-> final] :
         failures \in UNION {[1..n -> retried] : n \in 0..MaxResponses}, final \in last }

InitModelCall ==
  /\ JobIdle
  /\ opt = OptIdle
  /\ mrg = MrgIdle
  /\ det = DetIdle
  /\ trk = ThreadsIdle
  /\ srv = ThreadsIdle
  /\ \E run \in Runs, string_keys \in BOOLEAN :
     \E server \in Servers(run),
        set_order \in SetOrders({TupleKey(run[i]) : i \in 1..Len(run)}) :
       LET keys == [i \in 1..Len(run) |-> TupleKey(run[i])]
           baseline == load_history_for_keys(ArchiveFiles, keys, None, 10, set_order)
       IN net = [phase |-> "request", entries |-> run, server |-> server,
                 history |-> IF string_keys THEN HistMap(run, baseline) ELSE baseline]

(* k2_client.py 142-154 and 411-417: session.post through the HTTPAdapter   *)
(* mounted with Retry(total=3, backoff_factor=1, status_forcelist=[429,    *)
(* 500, 502, 503, 504]), as urllib3 1.x documents it: an answer of the     *)
(* list, or a failed connection, is retried while retries are left, after  *)
(* the Retry-After of the answer when the header is there, whatever the    *)
(* status (Retry.sleep: sleep_for_retry sleeps and returns when            *)
(* get_retry_after gives a value that is not 0), and else after            *)
(* backoff_factor * 2 ** (n - 1) seconds, with no wait before the first    *)
(* retry; when the retries are used up the call raises. An endpoint        *)
(* whose last answer is the failing handshake keeps failing it: the        *)
(* adapter retries that one too until the retries are used up              *)
session_post ==
  /\ net.phase = "request"
  /\ LET failures == IF net.server.final.status = 0
                     THEN net.server.failures \o
                            [n \in 1..(RetryTotal + 1 - Len(net.server.failures)) |->
                               net.server.final]
                     ELSE net.server.failures
         retried == Min(Len(failures), RetryTotal)
         waits == [n \in 1..retried |->
                     IF failures[n].retry_after \notin {None, 0}
                     THEN failures[n].retry_after
                     ELSE IF n <= 1 THEN 0
                     ELSE BackoffFactor * Pow2(n - 1)]
         raised == IF Len(failures) > RetryTotal
                   THEN (IF failures[RetryTotal + 1].status = 0 THEN "SSLError"
                         ELSE "RetryError")
                   ELSE ""
     IN net' = [phase |-> "response", entries |-> net.entries, history |-> net.history,
                server |-> net.server, sent |-> retried + 1, waits |-> waits,
                answers |-> SubSeq(failures, 1, retried),
                raised |-> raised, resp |-> net.server.final]
  /\ JobUnchanged
  /\ UNCHANGED <<opt, mrg, det, trk, srv>>

(* k2_client.py 418-455: raise_for_status, resp.json() (line 423, which     *)
(* raises on a body that is not JSON), the envelope (line 424), the try    *)
(* block                                                                   *)
HandleResponse ==
  /\ net.phase = "response"
  /\ LET error == IF net.raised # "" THEN net.raised
                  ELSE IF net.resp.status >= 400 THEN "HTTPError"
                  ELSE IF ~net.resp.json THEN "JSONDecodeError"
                  ELSE IF ~net.resp.choices THEN "KeyError"
                  ELSE ""
     IN net' = IF error # ""
               THEN [phase |-> "raised", entries |-> net.entries, history |-> net.history,
                     server |-> net.server, error |-> error]
               ELSE [phase |-> "returned", entries |-> net.entries,
                     history |-> net.history, server |-> net.server,
                     content |-> net.resp.content,
                     result |-> ResponseResult(net.resp.content, net.entries, net.history)]
  /\ JobUnchanged
  /\ UNCHANGED <<opt, mrg, det, trk, srv>>

SpecModelCall ==
  InitModelCall /\ [][\/ session_post
                       \/ HandleResponse]_vars

(* what coerce_json_from_text makes of the content the endpoint sent last *)
Coerced ==
  (CHOOSE r \in CoercedContents :
     r.entry = net.entries[1] /\ r.content = net.server.final.content).parsed

(* the call got a reply content: the retried answers did not use up the    *)
(* retries and the last one is a 200 whose body is a JSON document with    *)
(* "choices"                                                               *)
GotReply ==
  /\ net.phase \in {"returned", "raised"}
  /\ Len(net.server.failures) <= RetryTotal
  /\ net.server.final.status = 200
  /\ net.server.final.json
  /\ net.server.final.choices

(* C16: a call whose reply content cannot be parsed as JSON does not raise: *)
(* it returns summary.total_anomalies = 0, no anomalies, the raw content   *)
(* under _raw and the error under _error                                   *)
C16_UnparsableReplyDegraded ==
  GotReply /\ Coerced.raises
    => /\ net.phase = "returned"
       /\ DOMAIN net.result = {"summary", "anomalies", "_raw", "_error"}
       /\ net.result.summary.total_anomalies = 0
       /\ net.result.anomalies = <<>>
       /\ net.result._raw = net.server.final.content
       /\ net.result._error # ""

(* a reply cut before its last brace was returned as the annotated result *)
C16_Witness ==
  /\ GotReply
  /\ Coerced.raises
  /\ net.phase = "returned"
  /\ net.result._raw # "I cannot analyse this run."
  /\ net.result._raw # ""

(* C17: every wait before a retry caused by a 429 or 5xx answer is the      *)
(* Retry-After of the answer when it has one and else 5 s, 10 s, 20 s,     *)
(* 40 s, then 60 s by the number of the retry, and the retries are bounded *)
C17_RetryAfterOrBackoffFrom5s ==
  net.phase = "response"
    => /\ net.sent <= MaxResponses + 1
       /\ \A n \in 1..Len(net.waits) :
            LET answer == net.answers[n]
            IN answer.status = 429 \/ answer.status \in 500..599
                 => net.waits[n] = IF answer.retry_after # None THEN answer.retry_after
                                   ELSE Min(60, 5 * Pow2(n - 1))

(* C18: a model call that failed with an HTTP client error other than 429   *)
(* or with a TLS error is followed by no further request of the same       *)
(* analysis call: no request is being issued after such a failure          *)
C18_ClientAndTlsErrorsNotRetried ==
  ~(pc = "call" /\ call.last_error \in {"HTTPError", "SSLError"})

(* C19: in the result of a reply that parsed, every anomaly for which the   *)
(* reply held fewer than 3 suggested_next_checks carries at least 4        *)
C19_ChecksToppedUpToFour ==
  net.phase = "returned" /\ ~Coerced.raises /\ "anomalies" \in DOMAIN Coerced.value
    => \A i \in 1..Len(net.result.anomalies) :
         Len(DictGet(Coerced.value.anomalies[i], "suggested_next_checks", <<>>)) < 3
           => Len(net.result.anomalies[i].suggested_next_checks) >= 4

(* C20: in the result a model call returned to analyze_run for a reply that *)
(* parsed, the history_n backfilled into an anomaly's supporting_evidence  *)
(* is the number of baseline samples of the anomaly's (suite, case, metric) *)
C20_BackfilledHistoryNIsBaselineCount ==
  (/\ pc = "analyze_done"
   /\ call.attempt < MaxAttempts
   /\ "analysis_model" \in DOMAIN result.summary
   /\ result.summary.analysis_model # "heuristic")
    => \A i \in 1..Len(result.anomalies) :
         LET a == result.anomalies[i]
         IN a.supporting_evidence.history_n
              = Len(DictGet(history, <<a.suite, a.case, a.metric>>, <<>>))

(* C26: when no enabled endpoint has error_count < 5, _select_model sets    *)
(* every endpoint's error_count to 0 and returns an enabled endpoint that  *)
(* no enabled endpoint precedes by (priority, -success_count,              *)
(* error_count); it returns none only when no endpoint is enabled; and no  *)
(* error_count is ever negative                                            *)
C26_ResetWhenNoneQualifies ==
  [][/\ \A i \in 1..Len(models) : models[i].error_count >= 0
     /\ \A i \in 1..Len(models') : models'[i].error_count >= 0
     /\ (pc = "select" /\ call.attempt < MaxAttempts)
          => LET enabled == {i \in 1..Len(models) : models[i].enabled}
                 Before(a, b) ==
                   \/ a.priority < b.priority
                   \/ a.priority = b.priority /\ a.success_count > b.success_count
                   \/ a.priority = b.priority /\ a.success_count = b.success_count
                        /\ a.error_count < b.error_count
             IN /\ (pc' = "exhausted") = (enabled = {})
                /\ (enabled # {} /\ \A i \in enabled : models[i].error_count >= 5)
                     => /\ \A i \in 1..Len(models') : models'[i].error_count = 0
                        /\ call'.model \in enabled
                        /\ \A j \in enabled :
                             ~Before(models'[j], models'[call'.model])]_vars

(* two enabled endpoints of one priority had both reached 5 errors when an  *)
(* attempt failed: the next attempt of the call found both at 0 again and  *)
(* went to the second of the list, which has answered more requests with a *)
(* success status (an endpoint that has just failed has error_count >= 1   *)
(* unless the counts were reset)                                           *)
C26_Witness ==
  /\ pc = "call"
  /\ call.attempt >= 1
  /\ Len(models) = 2
  /\ \A i \in 1..2 : models[i].enabled /\ models[i].error_count = 0
  /\ models[1].priority = models[2].priority
  /\ models[2].success_count > models[1].success_count
  /\ call.model = 2

----------------------------------------------------------------------------
(* One ProgressTracker used by several threads: create_job,                *)
(* update_progress, get_progress, register_callback and cleanup_old, the   *)
(* lock threading.Lock() (not reentrant), the callbacks _notify calls, the *)
(* file _persist writes and the tracker a restarted process builds from    *)
(* it. The clock counts half hours, 3600 s are 2, and starts an hour      *)
(* after the epoch.                                                        *)

MaxThreads == 2

MaxCalls == 2

MaxTime == 5

(* the jobs the threads name, and what a registered callback does: return,  *)
(* raise, or call get_progress or update_progress on the same tracker      *)
InitTracker ==
  /\ JobIdle
  /\ opt = OptIdle
  /\ mrg = MrgIdle
  /\ det = DetIdle
  /\ net = NetIdle
  /\ srv = ThreadsIdle
  /\ trk = [phase |-> "threads", _progress |-> EmptyDict, _callbacks |-> EmptyDict,
            _lock |-> 0, _persist_file |-> EmptyDict, _order |-> <<>>,
            _persist_order |-> <<>>, now |-> 2,
            thread |-> [t \in 1..MaxThreads |->
                          [pc |-> "idle", job_id |-> "", calls |-> 0, callback |-> ""]],
            last |-> [op |-> "", wrote |-> {}, locked |-> FALSE]]

(* thread t may enter `with self._lock` of an operation: it is about to     *)
(* call it, or it is inside a callback that calls it; the lock is free     *)
CanLock(t, op) ==
  /\ trk.phase = "threads"
  /\ trk._lock = 0
  /\ \/ trk.thread[t].pc = "idle" /\ trk.thread[t].calls < MaxCalls
     \/ /\ trk.thread[t].pc = "callback"
        /\ trk.thread[t].callback = op

(* the tracker after thread t moved to pc, with the shared state `shared'   *)
(* (a record of the fields that change) and the note of what the step      *)
(* wrote and whether t held the lock while writing                         *)
TrackerStep(t, at, shared, op, wrote) ==
  /\ trk' = [f \in DOMAIN trk |->
               IF f = "thread" THEN [trk.thread EXCEPT ![t] = at]
               ELSE IF f = "last"
                    THEN [op |-> op, wrote |-> wrote, locked |-> trk._lock = t]
               ELSE IF f \in DOMAIN shared THEN shared[f]
               ELSE trk[f]]
  /\ JobUnchanged
  /\ UNCHANGED <<opt, mrg, det, net, srv>>

(* the with block is left and the call returns *)
Returned(t) ==
  [trk.thread[t] EXCEPT !.pc = "idle", !.calls = @ + 1, !.job_id = "", !.callback = ""]

(* progress_tracker.py 114-125 *)
CreateJob(t) ==
  \/ /\ CanLock(t, "create_job")
     /\ trk.thread[t].pc = "idle"
     /\ \E job_id \in {"j1", "j2"} :
          TrackerStep(t, [trk.thread[t] EXCEPT !.pc = "create_job", !.job_id = job_id],
                      [_lock |-> t], "create_job", {})
  \/ /\ trk.phase = "threads"
     /\ trk.thread[t].pc = "create_job"
     /\ LET job_id == trk.thread[t].job_id
            info == WithField(ProgressInfo(job_id, 0), "start_time", trk.now)
            progress2 == [j \in DOMAIN trk._progress \cup {job_id} |->
                            IF j = job_id THEN info ELSE trk._progress[j]]
            order2 == IF job_id \in DOMAIN trk._progress THEN trk._order
                      ELSE Append(trk._order, job_id)
        IN TrackerStep(t, [trk.thread[t] EXCEPT !.pc = "_notify"],
                       [_progress |-> progress2, _order |-> order2,
                        _persist_file |-> _persist(progress2), _persist_order |-> order2],
                       "create_job", {"_progress"})

(* progress_tracker.py 127-158 *)
UpdateProgress(t) ==
  \/ /\ CanLock(t, "update_progress")
     /\ \E job_id \in {"j1", "j2"} :
          TrackerStep(t, [trk.thread[t] EXCEPT !.pc = "update_progress",
                                               !.job_id = job_id],
                      [_lock |-> t], "update_progress", {})
  \/ /\ trk.phase = "threads"
     /\ trk.thread[t].pc = "update_progress"
     /\ LET job_id == trk.thread[t].job_id
            progress2 == update_progress(trk._progress, job_id, [status |-> "running"])
        IN IF job_id \notin DOMAIN trk._progress
           THEN TrackerStep(t, Returned(t), [_lock |-> 0], "update_progress", {})
           ELSE TrackerStep(t, [trk.thread[t] EXCEPT !.pc = "_notify"],
                            [_progress |-> progress2,
                             _persist_file |-> _persist(progress2),
                             _persist_order |-> trk._order],
                            "update_progress", {"_progress"})

(* progress_tracker.py 160-163 *)
GetProgress(t) ==
  \/ /\ CanLock(t, "get_progress")
     /\ TrackerStep(t, [trk.thread[t] EXCEPT !.pc = "get_progress"],
                    [_lock |-> t], "get_progress", {})
  \/ /\ trk.phase = "threads"
     /\ trk.thread[t].pc = "get_progress"
     /\ TrackerStep(t, Returned(t), [_lock |-> 0], "get_progress", {})

(* progress_tracker.py 170-172: no lock is taken *)
RegisterCallback(t) ==
  /\ trk.phase = "threads"
  /\ trk.thread[t].pc = "idle"
  /\ trk.thread[t].calls < MaxCalls
  /\ \E job_id \in {"j1", "j2"},
        callback \in {"returns", "raises", "get_progress", "update_progress"} :
       TrackerStep(t, Returned(t),
                   [_callbacks |-> [j \in DOMAIN trk._callbacks \cup {job_id} |->
                                      IF j = job_id THEN callback ELSE trk._callbacks[j]]],
                   "register_callback", {"_callbacks"})

(* progress_tracker.py 174-180, called inside the with block of create_job  *)
(* and update_progress: the callback of the job is called, what it raises  *)
(* is swallowed; then the with block is left. A callback that calls        *)
(* get_progress or update_progress goes on in GetProgress, UpdateProgress  *)
Notify(t) ==
  /\ trk.phase = "threads"
  /\ \/ /\ trk.thread[t].pc = "_notify"
        /\ IF trk.thread[t].job_id \in DOMAIN trk._callbacks
           THEN TrackerStep(t, [trk.thread[t] EXCEPT
                                  !.pc = "callback",
                                  !.callback = trk._callbacks[trk.thread[t].job_id]],
                            << >>, "_notify", {})
           ELSE TrackerStep(t, Returned(t), [_lock |-> 0], "_notify", {})
     \/ /\ trk.thread[t].pc = "callback"
        /\ trk.thread[t].callback \in {"returns", "raises"}
        /\ TrackerStep(t, Returned(t), [_lock |-> 0], "_notify", {})

(* progress_tracker.py 182-197, max_age_seconds = 3600 *)
CleanupOld(t) ==
  \/ /\ CanLock(t, "cleanup_old")
     /\ TrackerStep(t, [trk.thread[t] EXCEPT !.pc = "cleanup_old"],
                    [_lock |-> t], "cleanup_old", {})
  \/ /\ trk.phase = "threads"
     /\ trk.thread[t].pc = "cleanup_old"
     /\ LET cutoff == trk.now - 2
            to_remove == {j \in DOMAIN trk._progress : trk._progress[j].start_time < cutoff}
            progress2 == [j \in DOMAIN trk._progress \ to_remove |-> trk._progress[j]]
            order2 == SelectSeq(trk._order, LAMBDA j : j \notin to_remove)
            callbacks2 == [j \in DOMAIN trk._callbacks \ to_remove |-> trk._callbacks[j]]
        IN IF to_remove = {}
           THEN TrackerStep(t, Returned(t), [_lock |-> 0], "cleanup_old", {})
           ELSE TrackerStep(t, Returned(t),
                            [_lock |-> 0, _progress |-> progress2, _order |-> order2,
                             _callbacks |-> callbacks2,
                             _persist_file |-> _persist(progress2),
                             _persist_order |-> order2],
                            "cleanup_old",
                            {"_progress"} \cup (IF callbacks2 = trk._callbacks THEN {}
                                                ELSE {"_callbacks"}))

(* time.time() advances by half an hour *)
Tick ==
  /\ trk.phase = "threads"
  /\ trk.now < MaxTime
  /\ trk' = [trk EXCEPT !.now = @ + 1, !.last = [op |-> "", wrote |-> {}, locked |-> FALSE]]
  /\ JobUnchanged
  /\ UNCHANGED <<opt, mrg, det, net, srv>>

(* progress_tracker.py 74-101: the process is started again and builds its  *)
(* tracker from the file, whose jobs data.items() gives in the order of    *)
(* the file (_persist_order). info.get("start_time", 0) > cutoff compares  *)
(* the stored start_time with a float: a number is compared, the default 0 *)
(* is not above the cutoff, the string _persist wrote raises TypeError,    *)
(* which ends the loop and is swallowed (lines 100-101). The jobs before   *)
(* the first that raises are the ones the loop has seen, and those of      *)
(* them above the cutoff stay loaded.                                      *)
_load_persisted ==
  /\ trk.phase = "threads"
  /\ trk._lock = 0
  /\ \A t \in 1..MaxThreads : trk.thread[t].pc = "idle"
  /\ trk.last.op # "_load_persisted"
  /\ LET data == trk._persist_file
         items == trk._persist_order
         cutoff == trk.now - 2
         start_time(j) == IF "start_time" \in DOMAIN data[j] THEN data[j].start_time
                          ELSE [number |-> 0]
         raises == {i \in 1..Len(items) : "isoformat" \in DOMAIN start_time(items[i])}
         seen == IF raises = {} THEN items
                 ELSE SubSeq(items, 1, (CHOOSE i \in raises : \A k \in raises : i <= k) - 1)
         loaded == SelectSeq(seen, LAMBDA j : start_time(j).number > cutoff)
     IN trk' = [trk EXCEPT
                  !._progress = [j \in Range(loaded) |->
                                   [WithField(ProgressInfo(j, DictGet(data[j], "total_batches", 0)),
                                              "start_time", trk.now) EXCEPT
                                      !.status = DictGet(data[j], "status", "unknown"),
                                      !.current_batch = DictGet(data[j], "current_batch", 0),
                                      !.current_model = DictGet(data[j], "current_model", ""),
                                      !.error_message = DictGet(data[j], "error_message", "")]],
                  !._order = loaded,
                  !._callbacks = EmptyDict,
                  !.last = [op |-> "_load_persisted", wrote |-> {}, locked |-> FALSE]]
  /\ JobUnchanged
  /\ UNCHANGED <<opt, mrg, det, net, srv>>

SpecTracker ==
  InitTracker /\ [][\/ \E t \in 1..MaxThreads :
                          \/ CreateJob(t)
                          \/ UpdateProgress(t)
                          \/ GetProgress(t)
                          \/ RegisterCallback(t)
                          \/ Notify(t)
                          \/ CleanupOld(t)
                     \/ Tick
                     \/ _load_persisted]_vars


(* C21: every write to the job map or the callback map is made by a thread  *)
(* that holds the tracker's lock                                           *)
C21_MutationsUnderLock == trk.phase = "threads" /\ trk.last.wrote # {} => trk.last.locked

(* C27: no thread waits for the tracker's lock while holding it itself: a   *)
(* callback that calls get_progress or update_progress is not entered with *)
(* the lock held by its own thread                                         *)
C27_NoThreadBlocksForever ==
  trk.phase = "threads" =>
    \A t \in 1..MaxThreads :
      ~ /\ trk.thread[t].pc = "callback"
        /\ trk.thread[t].callback \in {"get_progress", "update_progress"}
        /\ trk._lock = t

(* C22: the tracker built from the file holds exactly the jobs of the file  *)
(* that started within the last hour                                       *)
C22_LoadedJobsAreTheRecentOnes ==
  trk.phase = "threads" /\ trk.last.op = "_load_persisted" =>
    DOMAIN trk._progress =
      {j \in DOMAIN trk._persist_file :
         trk._persist_file[j].start_time.isoformat > trk.now - 2}


(* C29: whenever summary.json and the anomalies file of the run exist and   *)
(* the file holds what analyze_run's own heuristic_anomalies call produced *)
(* (no enabled client, or the except branch taken), the summary has        *)
(* analysis_engine.degraded = true; also after a reuse_existing call. A     *)
(* summary.json left without a document by a failed write marks nothing    *)
(* and is not what the claim is about                                      *)
C29_HeuristicFileMarkedDegraded ==
  ( /\ pc \in {"returned", "reused"}
    /\ summary_json.exists
    /\ "analysis_engine" \in DOMAIN summary_json.data
    /\ anomalies_file.exists
    /\ (~(use_k2 /\ k2_enabled)) \/ ai_analysis_failed )
    => summary_json.data.analysis_engine.degraded = TRUE


(* C23: a step that changes the anomalies file or summary.json of the run   *)
(* is taken when no analysis call is in progress and every group of the    *)
(* run has been through its call, or the except branch has replaced the    *)
(* groups' results by the heuristic fallback                               *)
C23_WritesAfterEveryGroupResolved ==
  [][(anomalies_file' # anomalies_file \/ summary_json' # summary_json)
       => /\ pc \in {"write", "summary", "returned"}
          /\ ai_analysis_failed \/ \A g \in 1..Len(groups) : g < gi]_vars

C23_Witness ==
  /\ pc = "work_ok"
  /\ Len(groups) = 2
  /\ anomalies_file.exists
  /\ summary_json.exists


(* the result the analysis call has just handed back *)
ReturnedResult ==
  IF call.ret = "batch" THEN batch.batch_results[Len(batch.batch_results)] ELSE result

(* C28: a request whose reply has a success status counts a success on the  *)
(* endpoint (success_count + 1, error_count - 1 with floor 0) before the   *)
(* reply is read: when the reply lacks the content the success stays       *)
(* counted next to the error; when the content does not parse the step     *)
(* counts no error and the call returns the empty annotated result, tagged *)
(* with the endpoint, with no further attempt                              *)
C28_SuccessCountedBeforeParse ==
  [][pc = "call" =>
       LET i == call.model
           returned == pc' \in {"batch_loop", "analyze_done"}
       IN /\ call'.last_error = "KeyError" /\ call'.attempt = call.attempt + 1
             => /\ models'[i].success_count = models[i].success_count + 1
                /\ models'[i].error_count = Max(0, models[i].error_count - 1) + 1
          /\ returned /\ "_error" \in DOMAIN ReturnedResult'
             => /\ models'[i].success_count = models[i].success_count + 1
                /\ models'[i].error_count = Max(0, models[i].error_count - 1)
                /\ ReturnedResult'.anomalies = <<>>
                /\ ReturnedResult'.summary.total_anomalies = 0
                /\ ReturnedResult'.summary.analysis_model = models[i].model
                /\ "_raw" \in DOMAIN ReturnedResult'
                /\ call'.attempt = call.attempt
                /\ log' = log
                /\ slept' = slept]_vars

(* an unparsable reply was returned as the call's result by an endpoint     *)
(* that had failed before, while another enabled endpoint was there to try *)
C28_Witness ==
  /\ pc = "analyze_done"
  /\ "_error" \in DOMAIN result
  /\ call.attempt = 1
  /\ models[call.model].success_count = 1
  /\ \E j \in 1..Len(models) : j # call.model /\ models[j].enabled


----------------------------------------------------------------------------
(* The server's job registry _jobs: the request threads of the handlers     *)
(* that start a job and store it in the registry, and their pool workers.  *)
(* Of an entry the model keeps the status. A                               *)
(* `with _jobs_lock' block holds one store and is one step; job ids are    *)
(* fresh (uuid4), here the number of the request.                          *)

MaxRequests == 2

(* server.py 65-67: the empty registry, no request received, no worker *)
InitServer ==
  /\ JobIdle
  /\ opt = OptIdle
  /\ mrg = MrgIdle
  /\ det = DetIdle
  /\ net = NetIdle
  /\ trk = ThreadsIdle
  /\ srv = [phase |-> "server", _jobs |-> EmptyDict,
            request |-> [r \in 1..MaxRequests |-> [handler |-> "", pc |-> "received"]],
            worker |-> [r \in 1..MaxRequests |-> "none"]]

(* server.py 93-108: "running" is stored, then the worker is submitted *)
_start_job(r) ==
  /\ srv.phase = "server"
  /\ \/ /\ srv.request[r].pc = "received"
        /\ srv' = [srv EXCEPT !._jobs = WithField(@, r, [status |-> "running"]),
                              !.request[r] = [handler |-> "_start_job", pc |-> "submit"]]
     \/ /\ srv.request[r] = [handler |-> "_start_job", pc |-> "submit"]
        /\ srv' = [srv EXCEPT !.worker[r] = "submitted", !.request[r].pc = "returned"]
  /\ JobUnchanged
  /\ UNCHANGED <<opt, mrg, det, net, trk>>

(* server.py 498-551: run_crawl is submitted, then "running" is stored *)
api_unit_crawl(r) ==
  /\ srv.phase = "server"
  /\ \/ /\ srv.request[r].pc = "received"
        /\ srv' = [srv EXCEPT !.worker[r] = "submitted",
                              !.request[r] = [handler |-> "api_unit_crawl", pc |-> "store"]]
     \/ /\ srv.request[r] = [handler |-> "api_unit_crawl", pc |-> "store"]
        /\ srv' = [srv EXCEPT !._jobs = WithField(@, r, [status |-> "running"]),
                              !.request[r].pc = "returned"]
  /\ JobUnchanged
  /\ UNCHANGED <<opt, mrg, det, net, trk>>

(* server.py 554-613: run_analysis is submitted, then "running" is stored *)
api_unit_analyze(r) ==
  /\ srv.phase = "server"
  /\ \/ /\ srv.request[r].pc = "received"
        /\ srv' = [srv EXCEPT !.worker[r] = "submitted",
                              !.request[r] = [handler |-> "api_unit_analyze", pc |-> "store"]]
     \/ /\ srv.request[r] = [handler |-> "api_unit_analyze", pc |-> "store"]
        /\ srv' = [srv EXCEPT !._jobs = WithField(@, r, [status |-> "running"]),
                              !.request[r].pc = "returned"]
  /\ JobUnchanged
  /\ UNCHANGED <<opt, mrg, det, net, trk>>

(* server.py 671-717: run_analysis is submitted, then "running" is stored *)
api_unit_analyze_single(r) ==
  /\ srv.phase = "server"
  /\ \/ /\ srv.request[r].pc = "received"
        /\ srv' = [srv EXCEPT !.worker[r] = "submitted",
                              !.request[r] = [handler |-> "api_unit_analyze_single", pc |-> "store"]]
     \/ /\ srv.request[r] = [handler |-> "api_unit_analyze_single", pc |-> "store"]
        /\ srv' = [srv EXCEPT !._jobs = WithField(@, r, [status |-> "running"]),
                              !.request[r].pc = "returned"]
  /\ JobUnchanged
  /\ UNCHANGED <<opt, mrg, det, net, trk>>

(* server.py 720-770: run_reanalysis is submitted, then "running" is stored *)
api_unit_reanalyze_single(r) ==
  /\ srv.phase = "server"
  /\ \/ /\ srv.request[r].pc = "received"
        /\ srv' = [srv EXCEPT !.worker[r] = "submitted",
                              !.request[r] = [handler |-> "api_unit_reanalyze_single", pc |-> "store"]]
     \/ /\ srv.request[r] = [handler |-> "api_unit_reanalyze_single", pc |-> "store"]
        /\ srv' = [srv EXCEPT !._jobs = WithField(@, r, [status |-> "running"]),
                              !.request[r].pc = "returned"]
  /\ JobUnchanged
  /\ UNCHANGED <<opt, mrg, det, net, trk>>

(* server.py 773-860: run_webhook is submitted, then "running" is stored *)
api_unit_webhook(r) ==
  /\ srv.phase = "server"
  /\ \/ /\ srv.request[r].pc = "received"
        /\ srv' = [srv EXCEPT !.worker[r] = "submitted",
                              !.request[r] = [handler |-> "api_unit_webhook", pc |-> "store"]]
     \/ /\ srv.request[r] = [handler |-> "api_unit_webhook", pc |-> "store"]
        /\ srv' = [srv EXCEPT !._jobs = WithField(@, r, [status |-> "running"]),
                              !.request[r].pc = "returned"]
  /\ JobUnchanged
  /\ UNCHANGED <<opt, mrg, det, net, trk>>

(* server.py 863-1095: without data for the patch the request returns and  *)
(* no job is started; else _async_process is submitted, then "running" is  *)
(* stored                                                                  *)
webhook_analyze_unit_patch(r) ==
  /\ srv.phase = "server"
  /\ \/ /\ srv.request[r].pc = "received"
        /\ srv' = [srv EXCEPT !.request[r] =
                                [handler |-> "webhook_analyze_unit_patch", pc |-> "returned"]]
     \/ /\ srv.request[r].pc = "received"
        /\ srv' = [srv EXCEPT !.worker[r] = "submitted",
                              !.request[r] =
                                [handler |-> "webhook_analyze_unit_patch", pc |-> "store"]]
     \/ /\ srv.request[r] = [handler |-> "webhook_analyze_unit_patch", pc |-> "store"]
        /\ srv' = [srv EXCEPT !._jobs = WithField(@, r, [status |-> "running"]),
                              !.request[r].pc = "returned"]
  /\ JobUnchanged
  /\ UNCHANGED <<opt, mrg, det, net, trk>>

(* server.py 1965-2062: without data for the patch the request returns and  *)
(* no job is started; else _async_process is submitted and the request     *)
(* thread stores nothing                                                   *)
webhook_analyze_patch(r) ==
  /\ srv.phase = "server"
  /\ srv.request[r].pc = "received"
  /\ \E found \in BOOLEAN :
       srv' = [srv EXCEPT !.worker[r] = IF found THEN "submitted" ELSE @,
                          !.request[r] =
                            [handler |-> "webhook_analyze_patch", pc |-> "returned"]]
  /\ JobUnchanged
  /\ UNCHANGED <<opt, mrg, det, net, trk>>

(* server.py 111-129, called by action_reanalyze_all_missing (1659):         *)
(* "running" is stored, then the worker is submitted                       *)
_start_job_with_id(r) ==
  /\ srv.phase = "server"
  /\ \/ /\ srv.request[r].pc = "received"
        /\ srv' = [srv EXCEPT !._jobs = WithField(@, r, [status |-> "running"]),
                              !.request[r] =
                                [handler |-> "_start_job_with_id", pc |-> "submit"]]
     \/ /\ srv.request[r] = [handler |-> "_start_job_with_id", pc |-> "submit"]
        /\ srv' = [srv EXCEPT !.worker[r] = "submitted", !.request[r].pc = "returned"]
  /\ JobUnchanged
  /\ UNCHANGED <<opt, mrg, det, net, trk>>

(* server.py 977-1083 and 2006-2036: the worker of the two webhooks stores   *)
(* "running" when it starts, and "completed" or "failed" when it ends; the *)
(* stores in between change the progress of the entry, not its status      *)
_async_process(r) ==
  /\ srv.phase = "server"
  /\ srv.request[r].handler \in {"webhook_analyze_unit_patch", "webhook_analyze_patch"}
  /\ \/ /\ srv.worker[r] = "submitted"
        /\ srv' = [srv EXCEPT !._jobs = WithField(@, r, [status |-> "running"]),
                              !.worker[r] = "working"]
     \/ /\ srv.worker[r] = "working"
        /\ \E status \in {"completed", "failed"} :
             srv' = [srv EXCEPT !._jobs = WithField(@, r, [status |-> status]),
                                !.worker[r] = "recorded"]
  /\ JobUnchanged
  /\ UNCHANGED <<opt, mrg, det, net, trk>>

(* server.py 1595-1657: the work of action_reanalyze_all_missing stores      *)
(* "running" with the number of runs to process (and again after each run) *)
_work(r) ==
  /\ srv.phase = "server"
  /\ srv.request[r].handler = "_start_job_with_id"
  /\ srv.worker[r] = "submitted"
  /\ srv' = [srv EXCEPT !._jobs = WithField(@, r, [status |-> "running"]),
                        !.worker[r] = "working"]
  /\ JobUnchanged
  /\ UNCHANGED <<opt, mrg, det, net, trk>>

(* server.py 98-105, 119-126, 509-544, 570-607, 681-711, 730-764 and        *)
(* 798-849: the worker ends and stores "completed", or "failed" when the   *)
(* work raised; the work of _start_job_with_id has stored "running" before *)
(* it returns, and may raise before that                                   *)
_run(r) ==
  /\ srv.phase = "server"
  /\ srv.request[r].handler \notin {"webhook_analyze_unit_patch", "webhook_analyze_patch"}
  /\ srv.worker[r] \in {"submitted", "working"}
  /\ \E status \in {"completed", "failed"} :
       /\ srv.request[r].handler = "_start_job_with_id" /\ srv.worker[r] = "submitted"
            => status = "failed"
       /\ srv' = [srv EXCEPT !._jobs = WithField(@, r, [status |-> status]),
                             !.worker[r] = "recorded"]
  /\ JobUnchanged
  /\ UNCHANGED <<opt, mrg, det, net, trk>>

(* server.py 156-167: the reply of GET /api/v1/jobs/{job_id}: 404 for an     *)
(* unknown job, else its status with the old names translated              *)
get_job(job_id) ==
  IF job_id \notin DOMAIN srv._jobs THEN "404"
  ELSE LET j == srv._jobs[job_id]
       IN IF j.status = "done" THEN "completed"
          ELSE IF j.status = "error" THEN "failed"
          ELSE j.status

SpecServer ==
  InitServer /\ [][\E r \in 1..MaxRequests :
                     \/ _start_job(r)
                     \/ api_unit_crawl(r)
                     \/ api_unit_analyze(r)
                     \/ api_unit_analyze_single(r)
                     \/ api_unit_reanalyze_single(r)
                     \/ api_unit_webhook(r)
                     \/ webhook_analyze_unit_patch(r)
                     \/ webhook_analyze_patch(r)
                     \/ _start_job_with_id(r)
                     \/ _async_process(r)
                     \/ _work(r)
                     \/ _run(r)]_vars

(* C30: once the worker of a job has recorded "completed" or "failed", the   *)
(* registry does not report the job as "running"                           *)
C30_TerminalNeverRunningAgain ==
  srv.phase = "server" =>
    \A r \in 1..MaxRequests : srv.worker[r] = "recorded" => get_job(r) # "running"

====
